---------------------------- MODULE Spec2Model ----------------------------
(***************************************************************************)
(* A model of yanshuf's template-filling Excel exporter and of the code    *)
(* that drives it:                                                         *)
(*   - mappers/excel.ts            (src/unnamed/part_001)                  *)
(*   - stores/inspection.svelte.ts (src/unnamed/part_000)                  *)
(*   - stores/reports.ts           (src/src/lib/stores/reports.ts)         *)
(*   - components/Dashboard.svelte (handleExport)                          *)
(*                                                                         *)
(* JavaScript strings are sequences of one-character strings, so that      *)
(* trim, the section-code regular expression and startsWith are computed   *)
(* and not assumed.  Hebrew literals are transliterated to ASCII.          *)
(***************************************************************************)
EXTENDS Integers, Sequences, FiniteSets, TLC

VARIABLES
    \* ---- getOrderedDcTree (SpecTree)
    measurements,   \* the dcMeasurements array handed to getOrderedDcTree
    treeIndex,      \* the inverterIndex argument of the last call, 0 before it
    tree,           \* the array the last call returned
    \* ---- the four sheet fillers (SpecFill)
    ws,             \* the worksheet being filled
    ws0,            \* the same worksheet as the template delivered it
    insp,           \* the Inspection handed to the filler
    filler,         \* the filler that has run on ws, "none" before any
    runs,           \* how many times it has run
    dcLastRow,      \* what fillDcSheet returned, 0 before it ran
    \* ---- bakeTableStripes (SpecBake), on ws as well
    bakeArgs,       \* [startRow, endRow, colCount] of the call
    baked,          \* whether bakeTableStripes has run on ws
    \* ---- handleExport and downloadWorkbook (SpecExport)
    template,       \* the workbook /template.xlsx parses to
    storage,        \* localStorage: the blob stored under each report id
    index,          \* localStorage: the reports index
    exportingId,    \* Dashboard's re-entry guard
    calls,          \* the handleExport calls, in the order they are made
    downloads,      \* the files a.click() has handed to the browser
    \* ---- the inspection store (SpecStore), on storage and index as well
    currentReport,  \* createInspectionStore's currentReport, NullReport before it
    editing,        \* the part of the report the session edits
    lastOp          \* the last store operation called, and whether it saved

treeVars == <<measurements, treeIndex, tree>>
fillVars == <<ws, ws0, insp, filler, runs, dcLastRow>>
bakeVars == <<bakeArgs, baked>>
exportVars == <<template, storage, index, exportingId, calls, downloads>>
storeVars == <<currentReport, editing, lastOp>>
vars     == <<treeVars, fillVars, bakeVars, exportVars, storeVars>>

(***************************************************************************)
(* JavaScript values.  One record shape for all of them, so that any two   *)
(* can be compared: k is the type, s the characters of a string, n the     *)
(* number.                                                                 *)
(***************************************************************************)
Undef  == [k |-> "undef", s |-> <<>>, n |-> 0]
Null   == [k |-> "null",  s |-> <<>>, n |-> 0]
Str(s) == [k |-> "str",   s |-> s,    n |-> 0]
Num(n) == [k |-> "num",   s |-> <<>>, n |-> n]
Empty  == Str(<<>>)

\* JavaScript truthiness: if (v) ...
Truthy(v) ==
    CASE v.k = "str" -> v.s # <<>>
      [] v.k = "num" -> v.n # 0
      [] OTHER       -> FALSE

Digits == <<"0", "1", "2", "3", "4", "5", "6", "7", "8", "9">>
IsDigit(c) == \E i \in 1..Len(Digits) : Digits[i] = c
IsSpace(c) == c = " "

RECURSIVE NatToString(_)
NatToString(n) ==
    IF n < 10 THEN <<Digits[n + 1]>>
    ELSE NatToString(n \div 10) \o <<Digits[(n % 10) + 1]>>

\* String(v ?? ''): the characters JavaScript's String() yields
JsString(v) ==
    CASE v.k = "str" -> v.s
      [] v.k = "num" -> IF v.n < 0 THEN <<"-">> \o NatToString(-v.n)
                        ELSE NatToString(v.n)
      [] OTHER       -> <<>>

RECURSIVE TrimStart(_)
TrimStart(s) ==
    IF s # <<>> /\ IsSpace(Head(s)) THEN TrimStart(Tail(s)) ELSE s

RECURSIVE TrimEnd(_)
TrimEnd(s) ==
    IF s # <<>> /\ IsSpace(s[Len(s)]) THEN TrimEnd(SubSeq(s, 1, Len(s) - 1)) ELSE s

\* String.prototype.trim
Trim(s) == TrimEnd(TrimStart(s))

\* /^\d+\.\d+$/.test(s)
IsSectionCode(s) ==
    \E i \in 2..(Len(s) - 1) :
        /\ s[i] = "."
        /\ \A j \in 1..Len(s) : j # i => IsDigit(s[j])

\* String.prototype.startsWith
StartsWith(s, prefix) ==
    /\ Len(prefix) <= Len(s)
    /\ SubSeq(s, 1, Len(prefix)) = prefix

(***************************************************************************)
(* DC string measurements and getOrderedDcTree.                            *)
(***************************************************************************)
\* createDcMeasurement, with the id that crypto.randomUUID() drew
createDcMeasurement(id, inverterIndex, stringLabel, parentId) ==
    [ id                 |-> id,
      parentId           |-> parentId,
      inverterIndex      |-> inverterIndex,
      stringLabel        |-> stringLabel,
      panelCount         |-> Undef,
      openCircuitVoltage |-> Undef,
      operatingCurrent   |-> Undef,
      stringRiso         |-> Undef,
      feedRisoNegative   |-> Undef,
      feedRisoPositive   |-> Undef ]

\* A plausible slip: the inverter's measurements in array order, no walk.
getOrderedDcTree_flat(ms, inverterIndex) ==
    LET forInverter == SelectSeq(ms, LAMBDA m : m.inverterIndex = inverterIndex)
    IN  [i \in 1..Len(forInverter) |-> [measurement |-> forInverter[i], depth |-> 0]]

RECURSIVE walk(_, _, _)
RECURSIVE walkEach(_, _, _)
\* walk(parentId, depth): the entries the call pushes, in order
walk(forInverter, parentId, depth) ==
    walkEach(forInverter, SelectSeq(forInverter, LAMBDA m : m.parentId = parentId), depth)
\* the body of walk's for loop over childrenOf(parentId)
walkEach(forInverter, kids, depth) ==
    IF kids = <<>> THEN <<>>
    ELSE <<[measurement |-> Head(kids), depth |-> depth]>>
         \o walk(forInverter, Head(kids).id, depth + 1)
         \o walkEach(forInverter, Tail(kids), depth)

getOrderedDcTree(ms, inverterIndex) ==
    walk(SelectSeq(ms, LAMBDA m : m.inverterIndex = inverterIndex), Null, 0)

(***************************************************************************)
(* Worksheets (the part of ExcelJS the exporter uses).  A sheet holds the  *)
(* cells that exist, keyed <<row, col>>: val is a cell's value, sty the    *)
(* style object the cell references and rec what each style object holds.  *)
(* Cells loaded with the same XF index reference one shared style object,  *)
(* <<0, k>>; a cell that ExcelJS creates on demand, or whose style is      *)
(* assigned, owns the object <<row, col>>.                                 *)
(***************************************************************************)
NoFill     == [type |-> "undefined", pattern |-> "", fgColor |-> "", bgColor |-> ""]
EmptyStyle == [font |-> "undefined", alignment |-> "undefined", border |-> "undefined",
               fill |-> NoFill, numFmt |-> "undefined"]

HasCell(w, row, col) == <<row, col>> \in DOMAIN w.val

\* ws.getCell(row, col): the sheet, with the cell created when it did not exist
getCell(w, row, col) ==
    IF HasCell(w, row, col) THEN w
    ELSE [w EXCEPT !.val = (<<row, col>> :> Null) @@ w.val,
                   !.sty = (<<row, col>> :> <<row, col>>) @@ w.sty,
                   !.rec = (<<row, col>> :> EmptyStyle) @@ w.rec]

\* cell.value
CellValue(w, row, col) == IF HasCell(w, row, col) THEN w.val[<<row, col>>] ELSE Null
\* cell.style
CellStyle(w, row, col) ==
    IF HasCell(w, row, col) THEN w.rec[w.sty[<<row, col>>]] ELSE EmptyStyle

\* A plausible slip: writing the value through a fresh cell, dropping its style.
setCell_restyle(w, row, col, value) ==
    IF value = Undef \/ value = Empty THEN w
    ELSE LET c == getCell(w, row, col)
         IN  [c EXCEPT !.val[<<row, col>>] = value,
                       !.sty[<<row, col>>] = <<row, col>>,
                       !.rec = (<<row, col>> :> EmptyStyle) @@ c.rec]

\* setCell: set cell value, preserving the existing style
setCell(w, row, col, value) ==
    IF value = Undef \/ value = Empty THEN w
    ELSE [getCell(w, row, col) EXCEPT !.val[<<row, col>>] = value]

\* The rows ws.eachRow visits, ascending: those holding a value
RowNumbers(w) == {rc[1] : rc \in {x \in DOMAIN w.val : w.val[x] # Null}}
LastRow(w) == IF RowNumbers(w) = {} THEN 0
              ELSE CHOOSE r \in RowNumbers(w) : \A q \in RowNumbers(w) : q <= r

RECURSIVE scanCodes_keepFirst(_, _, _)
\* A plausible slip: a code seen before keeps its first row.
scanCodes_keepFirst(w, r, map) ==
    IF r > LastRow(w) THEN map
    ELSE LET val == Trim(JsString(CellValue(w, r, 1)))
         IN  IF r \in RowNumbers(w) /\ IsSectionCode(val) /\ val \notin DOMAIN map
             THEN scanCodes_keepFirst(w, r + 1, (val :> r) @@ map)
             ELSE scanCodes_keepFirst(w, r + 1, map)

RECURSIVE scanCodes(_, _, _)
\* the eachRow callback of buildCodeToRowMap, from row r on; map.set overwrites
scanCodes(w, r, map) ==
    IF r > LastRow(w) THEN map
    ELSE LET val == Trim(JsString(CellValue(w, r, 1)))
         IN  IF r \in RowNumbers(w) /\ IsSectionCode(val)
             THEN scanCodes(w, r + 1, (val :> r) @@ map)
             ELSE scanCodes(w, r + 1, map)

\* buildCodeToRowMap: sectionCode -> row number, scanning column A
buildCodeToRowMap(w) == scanCodes(w, 1, <<>>)

\* map.has / map.get
MapHas(map, key) == key \in DOMAIN map

(***************************************************************************)
(* The row-stripe baker.                                                   *)
(***************************************************************************)
\* hasSolidFill: whether a cell already has an explicit solid fill
hasSolidFill(w, row, col) ==
    LET fill == CellStyle(w, row, col).fill
    IN  fill # NoFill /\ fill.type = "pattern" /\ fill.pattern = "solid"

STRIPE_EVEN == "FFD9E2F3"
STRIPE_ODD  == "FFB4C6E7"

\* cell.x ? { ...cell.x } : {}
CopyOrEmpty(part) == IF part = "undefined" THEN "{}" ELSE part

\* the style object phase 2 assigns: font, alignment and border copied, the
\* fill replaced, no other key
StripeStyle(old, color) ==
    [ font      |-> CopyOrEmpty(old.font),
      alignment |-> CopyOrEmpty(old.alignment),
      border    |-> CopyOrEmpty(old.border),
      fill      |-> [type |-> "pattern", pattern |-> "solid",
                     fgColor |-> color, bgColor |-> color],
      numFmt    |-> "undefined" ]

\* A plausible slip: the style object the cell references is patched in place.
setStyle_inPlace(w, row, col, style) ==
    LET c == getCell(w, row, col)
    IN  [c EXCEPT !.rec[c.sty[<<row, col>>]] = style]

\* cell.style = style: the cell references a style object of its own
setStyle(w, row, col, style) ==
    LET c == getCell(w, row, col)
    IN  [c EXCEPT !.sty[<<row, col>>] = <<row, col>>,
                  !.rec = (<<row, col>> :> style) @@ c.rec]

RECURSIVE scanFills(_, _, _)
\* phase 1 from row r on: [ws, rowHasFill]; ws.getCell creates a missing cell
scanFills(w, r, endRow) ==
    IF r > endRow THEN [ws |-> w, rowHasFill |-> {}]
    ELSE LET rest == scanFills(getCell(w, r, 1), r + 1, endRow)
         IN  [ws |-> rest.ws,
              rowHasFill |-> IF hasSolidFill(w, r, 1) THEN {r} \cup rest.rowHasFill
                             ELSE rest.rowHasFill]

RECURSIVE stripeRow(_, _, _, _, _)
\* the inner for loop of phase 2, from column c on
stripeRow(w, r, c, colCount, color) ==
    IF c > colCount THEN w
    ELSE stripeRow(setStyle(w, r, c, StripeStyle(CellStyle(w, r, c), color)),
                   r, c + 1, colCount, color)

RECURSIVE stripeRows_skipCounted(_, _, _, _, _, _)
\* A plausible slip: the stripe index advances on striped rows only.
stripeRows_skipCounted(w, r, endRow, colCount, rowHasFill, stripeIndex) ==
    IF r > endRow THEN w
    ELSE IF r \in rowHasFill
         THEN stripeRows_skipCounted(w, r + 1, endRow, colCount, rowHasFill, stripeIndex)
         ELSE stripeRows_skipCounted(
                  stripeRow(w, r, 1, colCount,
                            IF stripeIndex % 2 = 0 THEN STRIPE_EVEN ELSE STRIPE_ODD),
                  r + 1, endRow, colCount, rowHasFill, stripeIndex + 1)

RECURSIVE stripeRows(_, _, _, _, _, _)
\* the outer for loop of phase 2, from row r on
stripeRows(w, r, endRow, colCount, rowHasFill, stripeIndex) ==
    IF r > endRow THEN w
    ELSE LET color == IF stripeIndex % 2 = 0 THEN STRIPE_EVEN ELSE STRIPE_ODD
             w1    == IF r \notin rowHasFill THEN stripeRow(w, r, 1, colCount, color) ELSE w
         IN  stripeRows(w1, r + 1, endRow, colCount, rowHasFill, stripeIndex + 1)

bakeTableStripes(w, startRow, endRow, colCount) ==
    LET phase1 == scanFills(w, startRow, endRow)
    IN  stripeRows(phase1.ws, startRow, endRow, colCount, phase1.rowHasFill, 0)

\* the sheet names, transliterated
SHEET_CHECKLIST == "protokol bdika tkufatit"
SHEET_DC        == " erkey DC"
SHEET_AC        == "erkey AC"
SHEET_DEFECTS   == "rikuz likuyim"

(***************************************************************************)
(* The four fillers.                                                       *)
(***************************************************************************)
RECURSIVE fillChecklistItems(_, _, _)
\* the for loop of fillChecklistSheet over inspection.checklist
fillChecklistItems(w, codeToRow, items) ==
    IF items = <<>> THEN w
    ELSE LET item == Head(items)
             code == item.sectionCode.s
             w1 == IF MapHas(codeToRow, code) /\ Truthy(item.status)
                   THEN setCell(w, codeToRow[code], 3, item.status) ELSE w
             w2 == IF MapHas(codeToRow, code) /\ Truthy(item.notes)
                   THEN setCell(w1, codeToRow[code], 4, item.notes) ELSE w1
         IN  fillChecklistItems(w2, codeToRow, Tail(items))

fillChecklistSheet(w, inspection) ==
    LET a == setCell(w, 2, 2, inspection.meta.siteName)
        b == setCell(a, 2, 4, inspection.meta.inspectionDate)
        c == setCell(b, 3, 2, inspection.meta.inspectorName)
        d == IF Truthy(inspection.meta.signatureText)
             THEN setCell(c, 3, 4, inspection.meta.signatureText) ELSE c
        codeToRow == buildCodeToRowMap(d)
    IN  fillChecklistItems(d, codeToRow, inspection.checklist)

\* A plausible slip: "if (v)" for "if (v !== undefined)", dropping a measured 0.
setCellIfDefined_truthy(w, row, col, v) == IF Truthy(v) THEN setCell(w, row, col, v) ELSE w

\* setCell guarded by "if (v !== undefined)"
setCellIfDefined(w, row, col, v) == IF v # Undef THEN setCell(w, row, col, v) ELSE w

RECURSIVE fillDcTree(_, _, _)
\* the inner for loop of fillDcSheet: [ws, currentRow] after writing the tree
fillDcTree(w, currentRow, entries) ==
    IF entries = <<>> THEN [ws |-> w, currentRow |-> currentRow]
    ELSE LET m  == Head(entries).measurement
             w2 == setCell(w, currentRow, 2, m.stringLabel)
             w3 == setCellIfDefined(w2, currentRow, 3, m.panelCount)
             w4 == setCellIfDefined(w3, currentRow, 4, m.openCircuitVoltage)
             w5 == setCellIfDefined(w4, currentRow, 5, m.operatingCurrent)
             w6 == setCellIfDefined(w5, currentRow, 6, m.stringRiso)
             w7 == setCellIfDefined(w6, currentRow, 7, m.feedRisoNegative)
             w8 == setCellIfDefined(w7, currentRow, 8, m.feedRisoPositive)
         IN  fillDcTree(w8, currentRow + 1, Tail(entries))

RECURSIVE fillDcConfigs_sharedRow(_, _, _, _)
\* A plausible slip: the tree starts on the header row.
fillDcConfigs_sharedRow(w, currentRow, configs, inspection) ==
    IF configs = <<>> THEN [ws |-> w, currentRow |-> currentRow]
    ELSE LET config == Head(configs)
             hdr    == setCell(w, currentRow, 1, Num(config.index))
             t      == getOrderedDcTree(inspection.dcMeasurements, config.index)
             body   == fillDcTree(hdr, currentRow, t)
         IN  fillDcConfigs_sharedRow(body.ws, body.currentRow, Tail(configs), inspection)

RECURSIVE fillDcConfigs(_, _, _, _)
\* the outer for loop of fillDcSheet over inspection.inverterConfigs
fillDcConfigs(w, currentRow, configs, inspection) ==
    IF configs = <<>> THEN [ws |-> w, currentRow |-> currentRow]
    ELSE LET config == Head(configs)
             hdr    == setCell(w, currentRow, 1, Num(config.index))
             t      == getOrderedDcTree(inspection.dcMeasurements, config.index)
             body   == fillDcTree(hdr, currentRow + 1, t)
         IN  fillDcConfigs(body.ws, body.currentRow, Tail(configs), inspection)

\* A plausible slip: starting below the last row in use, so that a run appends.
fillDcSheet_append(w, inspection) ==
    LET start == IF LastRow(w) + 1 > 2 THEN LastRow(w) + 1 ELSE 2
        r == fillDcConfigs(w, start, inspection.inverterConfigs, inspection)
    IN  [ws |-> r.ws, ret |-> r.currentRow - 1]

\* fillDcSheet: [ws |-> the sheet afterwards, ret |-> the number it returns]
fillDcSheet(w, inspection) ==
    LET r == fillDcConfigs(w, 2, inspection.inverterConfigs, inspection)
    IN  [ws |-> r.ws, ret |-> r.currentRow - 1]

RECURSIVE fillAcItems(_, _, _)
\* the first for loop of fillAcSheet, over inspection.acMeasurements
fillAcItems(w, codeToRow, ms) ==
    IF ms = <<>> THEN w
    ELSE LET m    == Head(ms)
             code == m.itemCode.s
             w1 == IF MapHas(codeToRow, code) /\ m.result # Undef /\ m.result # Empty
                   THEN setCell(w, codeToRow[code], 3, m.result) ELSE w
             w2 == IF MapHas(codeToRow, code) /\ Truthy(m.notes)
                   THEN setCell(w1, codeToRow[code], 4, m.notes) ELSE w1
         IN  fillAcItems(w2, codeToRow, Tail(ms))

\* 'מהפך', the label the serial-number rows start with, transliterated
SERIAL_MARKER == <<"m", "h", "p", "k">>

RECURSIVE scanSerialRows(_, _)
\* the eachRow callback collecting serialRows, from row r on
scanSerialRows(w, r) ==
    IF r > LastRow(w) THEN <<>>
    ELSE IF r \in RowNumbers(w) /\ StartsWith(JsString(CellValue(w, r, 2)), SERIAL_MARKER)
         THEN <<r>> \o scanSerialRows(w, r + 1)
         ELSE scanSerialRows(w, r + 1)

RECURSIVE fillAcSerials(_, _, _)
\* the last for loop of fillAcSheet, over inspection.inverterSerials
fillAcSerials(w, serialRows, serials) ==
    IF serials = <<>> THEN w
    ELSE LET serial == Head(serials)
             idx    == serial.inverterIndex - 1
             w1 == IF idx >= 0 /\ idx < Len(serialRows) /\ Truthy(serial.serialNumber)
                   THEN setCell(w, serialRows[idx + 1], 3, serial.serialNumber) ELSE w
         IN  fillAcSerials(w1, serialRows, Tail(serials))

\* A plausible slip: the serial's row taken from its place in the list.
fillAcSheet_byPosition(w, inspection) ==
    LET codeToRow == buildCodeToRowMap(w)
        filled    == fillAcItems(w, codeToRow, inspection.acMeasurements)
        serialRows == scanSerialRows(filled, 1)
        byPlace   == [i \in 1..Len(inspection.inverterSerials) |->
                        [inspection.inverterSerials[i] EXCEPT !.inverterIndex = i]]
    IN  fillAcSerials(filled, serialRows, byPlace)

fillAcSheet(w, inspection) ==
    LET codeToRow == buildCodeToRowMap(w)
        filled    == fillAcItems(w, codeToRow, inspection.acMeasurements)
        serialRows == scanSerialRows(filled, 1)
    IN  fillAcSerials(filled, serialRows, inspection.inverterSerials)

RECURSIVE fillDefectRows_provisioned(_, _, _)
\* A plausible slip: only the rows the template provisions are written.
fillDefectRows_provisioned(w, defects, i) ==
    IF i >= Len(defects) THEN w
    ELSE LET d   == defects[i + 1]
             row == i + 2
             w1  == setCell(w, row, 1, d.component)
             w2  == setCell(w1, row, 2, d.fault)
             w3  == setCell(w2, row, 3, d.location)
             w4  == setCell(w3, row, 4, d.status)
         IN  fillDefectRows_provisioned(IF HasCell(w, row, 1) THEN w4 ELSE w, defects, i + 1)

RECURSIVE fillDefectRows(_, _, _)
\* the for loop of fillDefectsSheet, from index i (0-based) on
fillDefectRows(w, defects, i) ==
    IF i >= Len(defects) THEN w
    ELSE LET d   == defects[i + 1]
             row == i + 2
             w1  == setCell(w, row, 1, d.component)
             w2  == setCell(w1, row, 2, d.fault)
             w3  == setCell(w2, row, 3, d.location)
             w4  == setCell(w3, row, 4, d.status)
         IN  fillDefectRows(w4, defects, i + 1)

fillDefectsSheet(w, defects) == fillDefectRows(w, defects, 0)

(***************************************************************************)
(* Idle values: what a group of variables holds in a specification that    *)
(* does not exercise it.                                                   *)
(***************************************************************************)
EmptySheet == [name |-> "", val |-> <<>>, sty |-> <<>>, rec |-> <<>>]
EmptyInspection ==
    [ meta |-> [siteName |-> Empty, inspectionDate |-> Empty,
                inspectorName |-> Empty, signatureText |-> Empty],
      inverterConfigs |-> <<>>, checklist |-> <<>>, dcMeasurements |-> <<>>,
      acMeasurements |-> <<>>, inverterSerials |-> <<>>, defects |-> <<>> ]

TreeIdle == measurements = <<>> /\ treeIndex = 0 /\ tree = <<>>
FillIdle == /\ ws = EmptySheet /\ ws0 = EmptySheet /\ insp = EmptyInspection
            /\ filler = "none" /\ runs = 0 /\ dcLastRow = 0
NoBakeArgs == [startRow |-> 0, endRow |-> 0, colCount |-> 0]
BakeIdle == bakeArgs = NoBakeArgs /\ baked = FALSE
ExportIdle == /\ template = <<>> /\ storage = <<>> /\ index = <<>>
              /\ exportingId = Null /\ calls = <<>> /\ downloads = <<>>
NoOp == [op |-> "none", arg |-> Null, saved |-> FALSE]
StoreIdle == currentReport = [id |-> Null] /\ editing = "none" /\ lastOp = NoOp

(***************************************************************************)
(* Report storage (reports.ts).  A blob is what localStorage holds under a *)
(* report's key: nothing, text JSON.parse rejects, or a report's JSON.     *)
(* Of a report the model keeps its id, name, folder and inspection; the    *)
(* timestamps, which saveReport writes to memory and blob alike, are left  *)
(* out.                                                                    *)
(***************************************************************************)
NoItem  == [kind |-> "null"]
Corrupt == [kind |-> "corrupt"]
Json(report) == [kind |-> "json", report |-> report]

NullReport == [id |-> Null]

\* 'בדיקה חדשה' and 'כללי', the name and folder of createNewReport, transliterated
NEW_REPORT_NAME == Str(<<"b", "d", "i", "k", "a", " ", "h", "d", "s", "a">>)
DEFAULT_FOLDER  == Str(<<"k", "l", "l", "i">>)

\* loadReport: the parsed report, a fresh value; null when the item is missing
\* or does not parse
loadReport(store, id) ==
    IF store[id].kind = "json" THEN store[id].report ELSE NullReport

\* the summary saveReport derives from a report
Summary(report) ==
    [ id             |-> report.id,
      name           |-> report.name,
      folder         |-> report.folder,
      siteName       |-> report.inspection.meta.siteName,
      inspectorName  |-> report.inspection.meta.inspectorName,
      inspectionDate |-> report.inspection.meta.inspectionDate ]

\* saveReport's index update: replace the entry of that id, or push
saveIndexEntry(idx, report) ==
    IF \E i \in DOMAIN idx : idx[i].id = report.id
    THEN LET existing == CHOOSE i \in DOMAIN idx :
                           /\ idx[i].id = report.id
                           /\ \A j \in 1..(i - 1) : idx[j].id # report.id
         IN  [idx EXCEPT ![existing] = Summary(report)]
    ELSE Append(idx, Summary(report))

(***************************************************************************)
(* Workbooks (downloadWorkbook).  A worksheet of a loaded workbook is its  *)
(* cells (ws), the table objects and the sheet-level autoFilter ExcelJS    *)
(* read from the file, and the range its stripes were baked over: the      *)
(* cells' styles after a bake are bakeTableStripes of that range.          *)
(***************************************************************************)
Worksheet(sheet, tables, autoFilter) ==
    [ ws |-> sheet, stripes |-> NoBakeArgs, tables |-> tables, autoFilter |-> autoFilter ]

\* wb.getWorksheet(name): the position of the sheet of that name, 0 when none
getWorksheet(wb, name) ==
    IF \E i \in DOMAIN wb : wb[i].ws.name = name
    THEN CHOOSE i \in DOMAIN wb :
           wb[i].ws.name = name /\ \A j \in 1..(i - 1) : wb[j].ws.name # name
    ELSE 0

\* bakeTableStripes(ws, startRow, endRow, colCount) on a worksheet of a workbook
Striped(entry, startRow, endRow, colCount) ==
    [entry EXCEPT !.stripes =
        [startRow |-> startRow, endRow |-> endRow, colCount |-> colCount]]

Max(a, b) == IF a >= b THEN a ELSE b

\* an optional argument: allDefects?: Defect[]
Given(list) == [given |-> TRUE, list |-> list]
NotGiven    == [given |-> FALSE, list |-> <<>>]

\* A plausible slip: the first sheet that is missing ends the filling.
fillAndBake_stopAtMissing(wb, inspection, allDefects) ==
    LET c   == getWorksheet(wb, SHEET_CHECKLIST)
        d   == getWorksheet(wb, SHEET_DC)
        a   == getWorksheet(wb, SHEET_AC)
        f   == getWorksheet(wb, SHEET_DEFECTS)
        defects == IF allDefects.given THEN allDefects.list ELSE inspection.defects
        wb1 == IF c # 0
               THEN [wb EXCEPT ![c] = Striped([@ EXCEPT !.ws = fillChecklistSheet(@, inspection)],
                                               2, 84, 4)]
               ELSE wb
        wb2 == IF c # 0 /\ d # 0
               THEN LET dc == fillDcSheet(wb1[d].ws, inspection)
                    IN  [wb1 EXCEPT ![d] = Striped([@ EXCEPT !.ws = dc.ws], 2, dc.ret, 8)]
               ELSE wb1
        wb3 == IF c # 0 /\ d # 0 /\ a # 0
               THEN [wb2 EXCEPT ![a] = Striped([@ EXCEPT !.ws = fillAcSheet(@, inspection)],
                                                2, 42, 4)]
               ELSE wb2
    IN  IF c # 0 /\ d # 0 /\ a # 0 /\ f # 0
        THEN [wb3 EXCEPT ![f] = Striped([@ EXCEPT !.ws = fillDefectsSheet(@, defects)],
                                         2, Max(2, Len(defects) + 1), 4)]
        ELSE wb3

\* downloadWorkbook between the template load and the table stripping: each of
\* the four sheets that exists is filled, then baked
fillAndBake(wb, inspection, allDefects) ==
    LET c   == getWorksheet(wb, SHEET_CHECKLIST)
        wb1 == IF c # 0
               THEN [wb EXCEPT ![c] = Striped([@ EXCEPT !.ws = fillChecklistSheet(@, inspection)],
                                               2, 84, 4)]
               ELSE wb
        d   == getWorksheet(wb1, SHEET_DC)
        wb2 == IF d # 0
               THEN LET dc == fillDcSheet(wb1[d].ws, inspection)
                    IN  [wb1 EXCEPT ![d] = Striped([@ EXCEPT !.ws = dc.ws], 2, dc.ret, 8)]
               ELSE wb1
        a   == getWorksheet(wb2, SHEET_AC)
        wb3 == IF a # 0
               THEN [wb2 EXCEPT ![a] = Striped([@ EXCEPT !.ws = fillAcSheet(@, inspection)],
                                                2, 42, 4)]
               ELSE wb2
        defects == IF allDefects.given THEN allDefects.list ELSE inspection.defects
        f   == getWorksheet(wb3, SHEET_DEFECTS)
    IN  IF f # 0
        THEN [wb3 EXCEPT ![f] = Striped([@ EXCEPT !.ws = fillDefectsSheet(@, defects)],
                                         2, Max(2, Len(defects) + 1), 4)]
        ELSE wb3

\* ws.removeTable(name)
removeTable(entry, name) ==
    [entry EXCEPT !.tables = SelectSeq(@, LAMBDA table : table.name # name)]

RECURSIVE stripSheet(_, _)
\* the inner loop of the table stripping, over what ws.getTables() returned
stripSheet(entry, tables) ==
    IF tables = <<>> THEN entry
    ELSE LET table == Head(tables)
         IN  stripSheet(IF Truthy(table.name) THEN removeTable(entry, table.name) ELSE entry,
                        Tail(tables))

\* the table stripping over wb.worksheets
stripTables(wb) == [i \in DOMAIN wb |-> stripSheet(wb[i], wb[i].tables)]

\* 'בדיקה_' and 'ללא_שם', transliterated
FILE_PREFIX == <<"b", "d", "i", "k", "a", "_">>
NO_NAME     == <<"l", "l", "o", "_", "s", "h", "e", "m">>
\* a.download
FileName(inspection) ==
    FILE_PREFIX
      \o (IF Truthy(inspection.meta.siteName) THEN JsString(inspection.meta.siteName)
          ELSE NO_NAME)
      \o <<"_">> \o JsString(inspection.meta.inspectionDate)
      \o <<".", "x", "l", "s", "x">>

(***************************************************************************)
(* Inputs shared by the specifications.                                    *)
(***************************************************************************)
InverterIndices == 1..2

\* the id of the measurement at array position i; NodeId(0) is carried by none
NodeId(i) == Str(<<"u", Digits[i + 1]>>)

(***************************************************************************)
(* SpecFill: each filler on the sheet downloadWorkbook hands it, for every *)
(* template layout and inspection slice within the bounds below.  The      *)
(* DC filler may run again on its own result.  Of the bake that follows a  *)
(* fill, bakeArgs records the arguments (the baker itself is SpecBake's).  *)
(***************************************************************************)
\* the checklist statuses 'תקין' and 'לא תקין', transliterated
STATUS_NORMAL == Str(<<"t", "a", "k", "i", "n">>)
STATUS_FAULTY == Str(<<"l", "o", " ", "t", "a", "k", "i", "n">>)

MaxRuns     == 2    \* runs of fillDcSheet on one sheet
MaxItems    == 2    \* checklist items
MaxConfigs  == 2    \* inverter configs
MaxDcNodes  == 2    \* DC measurements
MaxAcItems  == 1    \* AC measurements
MaxSerials  == 2    \* inverter serials
MaxDefects  == 2    \* defects
\* the template rows below the title row that a layout varies
LayoutRows == 2..4

\* template text, and the one style object the template's cells share
TemplateText  == Str(<<"T">>)
TemplateStyle == [font |-> "Arial", alignment |-> "right", border |-> "thin",
                  fill |-> NoFill, numFmt |-> "0.00"]
SharedRef     == <<0, 1>>

\* a loaded sheet holding the cells <<row, col, value>> of S
Sheet(name, S) ==
    LET at == {<<t[1], t[2]>> : t \in S}
    IN  [ name |-> name,
          val  |-> [x \in at |-> (CHOOSE t \in S : t[1] = x[1] /\ t[2] = x[2])[3]],
          sty  |-> [x \in at |-> SharedRef],
          rec  |-> (SharedRef :> TemplateStyle) ]

\* the placeholder cells a template provides in columns cols of the layout rows
Placeholders(prefilled, cols) ==
    IF prefilled THEN {<<r, c, TemplateText>> : r \in LayoutRows, c \in cols} ELSE {}

Code11  == <<"1", ".", "1">>
Code12  == <<"1", ".", "2">>
Code12p == <<" ", "1", ".", "2", " ">>
\* what column A of a layout row may hold: nothing, a code, a padded code.  Rows
\* 2 and 3 are the rows of the fixed header cells.
ColumnA(r) ==
    CASE r = 2 -> {Null, Str(Code12p)}
      [] r = 3 -> {Null, Str(Code11)}
      [] OTHER -> {Null, Str(Code11), Str(Code12p)}
\* the title row: a number in column A, a label in column B
Title == {<<1, 1, Num(1)>>, <<1, 2, Str(<<"m", "h">>)>>}

Seqs(S, n) == UNION {[1..k -> S] : k \in 0..n}

MetaChoices ==
    { [siteName |-> Empty, inspectionDate |-> Empty,
       inspectorName |-> Empty, signatureText |-> Empty],
      [siteName |-> Str(<<"s">>), inspectionDate |-> Str(<<"d">>),
       inspectorName |-> Str(<<"i">>), signatureText |-> Str(<<"g">>)] }

ChecklistItems ==
    { [sectionCode |-> code, description |-> Str(<<"x">>), status |-> e[1], notes |-> e[2]] :
        code \in {Str(Code11), Str(Code12)},
        e \in { <<Empty, Empty>>, <<Empty, Str(<<"n">>)>>,
                <<STATUS_NORMAL, Str(<<"n">>)>>, <<STATUS_FAULTY, Empty>> } }

ChecklistCase ==
    \E colA \in {f \in [LayoutRows -> {Null, Str(Code11), Str(Code12p)}] :
                     \A r \in LayoutRows : f[r] \in ColumnA(r)},
       prefilled \in BOOLEAN,
       meta \in MetaChoices, items \in Seqs(ChecklistItems, MaxItems) :
      /\ ws = Sheet(SHEET_CHECKLIST,
                    Title \cup {<<r, 1, colA[r]>> : r \in {q \in LayoutRows : colA[q] # Null}}
                          \cup Placeholders(prefilled, {2, 3, 4}))
      /\ insp = [EmptyInspection EXCEPT !.meta = meta, !.checklist = items]

\* the inverter configs setInverterConfigs builds: indices 1..n in order
Configs(n) == [i \in 1..n |-> [index |-> i, label |-> Str(<<"c">>), stringCount |-> 4]]
DcLabels == <<Str(<<"A">>), Str(<<"B">>), Str(<<"A", ".", "1">>), Str(<<"C">>)>>

DcCase ==
    \E nc \in 0..MaxConfigs, n \in 0..MaxDcNodes, prefilled \in BOOLEAN :
      \E parent \in [1..n -> {Null} \cup {NodeId(j) : j \in 0..n}],
         inv \in [1..n -> InverterIndices],
         panels \in [1..n -> {Undef, Num(0)}] :
        /\ \A i \in 1..n : parent[i] \in {Null, NodeId(0)} \/ \E j \in 1..(i - 1) : parent[i] = NodeId(j)
        /\ ws = Sheet(SHEET_DC, Title \cup Placeholders(prefilled, {1, 2, 3, 4}))
        /\ insp = [EmptyInspection EXCEPT
                     !.inverterConfigs = Configs(nc),
                     !.dcMeasurements =
                        [i \in 1..n |->
                           [createDcMeasurement(NodeId(i), inv[i], DcLabels[i], parent[i])
                              EXCEPT !.panelCount = panels[i],
                                     !.feedRisoPositive = IF i = 1 THEN Num(7) ELSE Undef]]]

\* what columns A and B of an AC layout row may hold
AcRowKinds == {"blank", "item", "serial"}
AcRow(r, kind) ==
    CASE kind = "item"   -> {<<r, 1, Str(Code11)>>, <<r, 2, Str(<<"x">>)>>}
      [] kind = "serial" -> {<<r, 2, Str(SERIAL_MARKER \o <<" ", "1">>)>>}
      [] OTHER           -> {}

AcItems ==
    { [itemCode |-> e[1], result |-> e[2], notes |-> e[3]] :
        e \in { <<Str(Code11), Undef, Empty>>, <<Str(Code11), Empty, Str(<<"n">>)>>,
                <<Str(Code11), Num(0), Empty>>, <<Str(Code11), Str(<<"r">>), Str(<<"n">>)>>,
                <<Str(Code12), Str(<<"r">>), Str(<<"n">>)>> } }

\* The inverterIndex of the i-th of n serial records.  generateInverterSerials
\* copies it from the i-th config's index: i as setInverterConfigs numbers the
\* configs, and any other number once updateInverterConfig has assigned one.
SerialLayouts == {"sorted", "reversed", "zeroBased", "same"}
SerialIndex(layout, i, n) ==
    CASE layout = "sorted"    -> i
      [] layout = "reversed"  -> n + 1 - i
      [] layout = "zeroBased" -> i - 1
      [] OTHER                -> 1

SerialNumbers == <<Str(<<"S", "1">>), Str(<<"S", "2">>), Str(<<"S", "3">>), Str(<<"S", "4">>)>>

AcCase ==
    \E kinds \in [LayoutRows -> AcRowKinds], prefilled \in BOOLEAN,
       items \in Seqs(AcItems, MaxAcItems),
       serials \in Seqs(BOOLEAN, MaxSerials), layout \in SerialLayouts :
      /\ ws = Sheet(SHEET_AC,
                    Title \cup UNION {AcRow(r, kinds[r]) : r \in LayoutRows}
                          \cup Placeholders(prefilled, {3, 4}))
      /\ insp = [EmptyInspection EXCEPT
                   !.acMeasurements = items,
                   !.inverterSerials =
                      [i \in 1..Len(serials) |->
                         [inverterIndex |-> SerialIndex(layout, i, Len(serials)),
                          serialNumber  |-> IF serials[i] THEN SerialNumbers[i] ELSE Empty]]]

Defects ==
    [ component : {Empty, Str(<<"c">>)}, fault : {Empty, Str(<<"f">>)},
      location  : {Empty, Str(<<"l">>)}, status : {Empty, Str(<<"o">>)} ]

DefectsCase ==
    \E prefilled \in BOOLEAN, defects \in Seqs(Defects, MaxDefects) :
      /\ ws = Sheet(SHEET_DEFECTS, Title \cup Placeholders(prefilled, {1, 2, 3, 4}))
      /\ insp = [EmptyInspection EXCEPT !.defects = defects]

FillInit ==
    /\ ChecklistCase \/ DcCase \/ AcCase \/ DefectsCase
    /\ ws0 = ws
    /\ filler = "none"
    /\ runs = 0
    /\ dcLastRow = 0
    /\ TreeIdle
    /\ BakeIdle
    /\ ExportIdle
    /\ StoreIdle

\* downloadWorkbook: if (wsChecklist) fillChecklistSheet(wsChecklist, inspection)
FillChecklistSheet ==
    /\ ws.name = SHEET_CHECKLIST
    /\ runs = 0
    /\ ws' = fillChecklistSheet(ws, insp)
    /\ bakeArgs' = [startRow |-> 2, endRow |-> 84, colCount |-> 4]
    /\ filler' = "checklist"
    /\ runs' = runs + 1
    /\ UNCHANGED <<ws0, insp, dcLastRow, baked, treeVars, exportVars, storeVars>>

\* downloadWorkbook: if (wsDc) dcLastRow = fillDcSheet(wsDc, inspection)
FillDcSheet ==
    /\ ws.name = SHEET_DC
    /\ runs < MaxRuns
    /\ ws' = fillDcSheet(ws, insp).ws
    /\ dcLastRow' = fillDcSheet(ws, insp).ret
    /\ bakeArgs' = [startRow |-> 2, endRow |-> dcLastRow', colCount |-> 8]
    /\ filler' = "dc"
    /\ runs' = runs + 1
    /\ UNCHANGED <<ws0, insp, baked, treeVars, exportVars, storeVars>>

\* downloadWorkbook: if (wsAc) fillAcSheet(wsAc, inspection)
FillAcSheet ==
    /\ ws.name = SHEET_AC
    /\ runs = 0
    /\ ws' = fillAcSheet(ws, insp)
    /\ bakeArgs' = [startRow |-> 2, endRow |-> 42, colCount |-> 4]
    /\ filler' = "ac"
    /\ runs' = runs + 1
    /\ UNCHANGED <<ws0, insp, dcLastRow, baked, treeVars, exportVars, storeVars>>

\* downloadWorkbook: if (wsDefects) fillDefectsSheet(wsDefects, defects)
FillDefectsSheet ==
    /\ ws.name = SHEET_DEFECTS
    /\ runs = 0
    /\ ws' = fillDefectsSheet(ws, insp.defects)
    /\ bakeArgs' = [startRow |-> 2, endRow |-> Max(2, Len(insp.defects) + 1), colCount |-> 4]
    /\ filler' = "defects"
    /\ runs' = runs + 1
    /\ UNCHANGED <<ws0, insp, dcLastRow, baked, treeVars, exportVars, storeVars>>

FillNext == FillChecklistSheet \/ FillDcSheet \/ FillAcSheet \/ FillDefectsSheet

SpecFill == FillInit /\ [][FillNext]_vars

(***************************************************************************)
(* SpecBake: bakeTableStripes on every sheet of BakeRows rows and          *)
(* BakeCols + 1 columns built from the row kinds below, for every row      *)
(* range and column count within them (an empty range and a range running  *)
(* past the template's last row included).                                 *)
(***************************************************************************)
BakeRows == 3
BakeCols == 2

\* the style objects the template's cells share
PlainRef    == <<0, 1>>
HeaderRef   == <<0, 2>>
DarkRef     == <<0, 3>>
GradientRef == <<0, 4>>
SharedStyles ==
    (PlainRef    :> TemplateStyle) @@
    (HeaderRef   :> [TemplateStyle EXCEPT
                       !.font = "Arial bold",
                       !.fill = [type |-> "pattern", pattern |-> "solid",
                                 fgColor |-> "FF4472C4", bgColor |-> "FF4472C4"]]) @@
    (DarkRef     :> [TemplateStyle EXCEPT
                       !.fill = [type |-> "pattern", pattern |-> "darkGray",
                                 fgColor |-> "FF000000", bgColor |-> "FFFFFFFF"]]) @@
    (GradientRef :> [TemplateStyle EXCEPT
                       !.border = "undefined",
                       !.fill = [type |-> "gradient", pattern |-> "",
                                 fgColor |-> "FF00FF00", bgColor |-> ""]])

\* how a template row is styled: no cells at all, no fill, a solid fill in
\* every cell, in column 1 only or in column 2 only, a fill that is not solid
RowKinds == {"absent", "plain", "header", "first", "inner", "dark", "gradient"}
RowRef(kind, col) ==
    CASE kind = "header"   -> HeaderRef
      [] kind = "first"    -> IF col = 1 THEN HeaderRef ELSE PlainRef
      [] kind = "inner"    -> IF col = 2 THEN HeaderRef ELSE PlainRef
      [] kind = "dark"     -> DarkRef
      [] kind = "gradient" -> GradientRef
      [] OTHER             -> PlainRef

StyledSheet(kinds) ==
    LET at == {<<r, c>> : r \in {q \in 1..BakeRows : kinds[q] # "absent"},
                          c \in 1..(BakeCols + 1)}
    IN  [ name |-> SHEET_DEFECTS,
          val  |-> [x \in at |-> TemplateText],
          sty  |-> [x \in at |-> RowRef(kinds[x[1]], x[2])],
          rec  |-> SharedStyles ]

BakeInit ==
    /\ \E kinds \in [1..BakeRows -> RowKinds] : ws = StyledSheet(kinds)
    /\ \E startRow \in 1..2, colCount \in 1..BakeCols :
         \E endRow \in (startRow - 1)..(BakeRows + 1) :
           bakeArgs = [startRow |-> startRow, endRow |-> endRow, colCount |-> colCount]
    /\ ws0 = ws
    /\ baked = FALSE
    /\ insp = EmptyInspection /\ filler = "none" /\ runs = 0 /\ dcLastRow = 0
    /\ TreeIdle
    /\ ExportIdle
    /\ StoreIdle

BakeTableStripes ==
    /\ ~baked
    /\ ws' = bakeTableStripes(ws, bakeArgs.startRow, bakeArgs.endRow, bakeArgs.colCount)
    /\ baked' = TRUE
    /\ UNCHANGED <<ws0, insp, filler, runs, dcLastRow, bakeArgs, treeVars, exportVars, storeVars>>

BakeNext == BakeTableStripes

SpecBake == BakeInit /\ [][BakeNext]_vars

(***************************************************************************)
(* handleExport (Dashboard.svelte).  A call runs synchronously up to its   *)
(* first pending await; the continuation after an await settles runs up    *)
(* to the next one.  A throw inside downloadWorkbook reaches handleExport's *)
(* catch and finally through promise reactions only, which no other        *)
(* handler can interleave with, so it is part of the step that throws.     *)
(***************************************************************************)
\* the section titles of config/checklist.js: section 1 has one, the rest none
SectionTitle(parentCode) == IF parentCode = <<"1">> THEN Str(<<"S", "1">>) ELSE Empty

\* sectionCode.split('.')[0]
BeforeDot(s) ==
    IF \E i \in DOMAIN s : s[i] = "."
    THEN SubSeq(s, 1, (CHOOSE i \in DOMAIN s : s[i] = "." /\ \A j \in 1..(i - 1) : s[j] # ".") - 1)
    ELSE s

\* 'סעיף ', transliterated
LOCATION_PREFIX == <<"s", "e", "i", "f", " ">>

\* handleExport's autoDefects
exportAutoDefects(checklist) ==
    LET faulty == SelectSeq(checklist, LAMBDA c : c.status = STATUS_FAULTY)
    IN  [i \in 1..Len(faulty) |->
           [ component |-> SectionTitle(BeforeDot(faulty[i].sectionCode.s)),
             fault     |-> faulty[i].description,
             location  |-> Str(LOCATION_PREFIX \o faulty[i].sectionCode.s),
             status    |-> IF Truthy(faulty[i].notes) THEN faulty[i].notes ELSE Empty ]]

\* handleExport's allDefects
exportAllDefects(inspection) == exportAutoDefects(inspection.checklist) \o inspection.defects

\* what a call has done, in order
Ev(op, sheet) == [op |-> op, sheet |-> sheet]
Did(op) == Ev(op, "")

\* A plausible slip: every sheet is filled before the first is baked.
FillEvents_fillsFirst(wb) ==
    LET names   == <<SHEET_CHECKLIST, SHEET_DC, SHEET_AC, SHEET_DEFECTS>>
        present == SelectSeq(names, LAMBDA n : getWorksheet(wb, n) # 0)
    IN  [i \in 1..Len(present) |-> Ev("fill", present[i])]
        \o [i \in 1..Len(present) |-> Ev("bake", present[i])]

\* the fills and bakes downloadWorkbook runs on a workbook, in order
FillEvents(wb) ==
    LET names   == <<SHEET_CHECKLIST, SHEET_DC, SHEET_AC, SHEET_DEFECTS>>
        present == SelectSeq(names, LAMBDA n : getWorksheet(wb, n) # 0)
    IN  [i \in 1..(2 * Len(present)) |->
           Ev(IF i % 2 = 1 THEN "fill" ELSE "bake", present[(i + 1) \div 2])]

NoResponse == [settled |-> "pending", ok |-> FALSE, status |-> 0]
\* how fetch('/template.xlsx') may settle
Responses ==
    { [settled |-> "rejected", ok |-> FALSE, status |-> 0],
      [settled |-> "resolved", ok |-> TRUE,  status |-> 200],
      [settled |-> "resolved", ok |-> FALSE, status |-> 404] }

\* A plausible slip: the guard compares ids, as the button's disabled attribute does.
guardBlocks_sameId(current, id) == current = id
\* if (exportingId) return;
guardBlocks(current, id) == Truthy(current)

\* A plausible slip: the guard is released after the download only.
finallyExportingId_afterDownload(current, outcome) ==
    IF outcome = "downloaded" THEN Null ELSE current
\* finally { exportingId = null; }
finallyExportingId(current, outcome) == Null

\* A plausible slip: the response's status is not looked at.
loadTemplateThrows_never(response) == FALSE
\* if (!response.ok) throw
loadTemplateThrows(response) == ~response.ok

\* A plausible slip: the export reads the report where it is stored now.
inspectionRead_live(call, store) ==
    IF store[call.id].kind = "json" THEN store[call.id].report.inspection
    ELSE call.inspection
\* const inspection = report.inspection, of the report loadReport parsed
inspectionRead(call, store) == call.inspection

(***************************************************************************)
(* SpecExport: up to MaxCalls handleExport calls, made at any moment for   *)
(* either of two report ids, on the templates and stored reports below.    *)
(* Report r1 is saved and deleted between the export's steps; report r2 is *)
(* a stored report that nothing edits.                                     *)
(***************************************************************************)
MaxCalls == 2
Calls == 1..MaxCalls

R1 == Str(<<"r", "1">>)
R2 == Str(<<"r", "2">>)
ReportIdSeq == <<R1, R2>>
ReportIds == {R1, R2}
\* the report the editor has open
EditedIds == {R1}

\* an inspection with a faulty checklist item, DC, AC and serial data, a defect
InspectionA ==
    [ meta |-> [siteName |-> Str(<<"s">>), inspectionDate |-> Str(<<"d">>),
                inspectorName |-> Str(<<"i">>), signatureText |-> Str(<<"g">>)],
      inverterConfigs |-> Configs(1),
      checklist |-> << [sectionCode |-> Str(Code11), description |-> Str(<<"x">>),
                        status |-> STATUS_FAULTY, notes |-> Str(<<"n">>)] >>,
      dcMeasurements |-> << createDcMeasurement(NodeId(1), 1, DcLabels[1], Null) >>,
      acMeasurements |-> << [itemCode |-> Str(Code11), result |-> Num(0), notes |-> Empty] >>,
      inverterSerials |-> << [inverterIndex |-> 1, serialNumber |-> Str(<<"S", "N">>)] >>,
      defects |-> << [component |-> Str(<<"c">>), fault |-> Str(<<"f">>),
                      location |-> Empty, status |-> Str(<<"o">>)] >> ]
\* a new report's inspection with a date and one item marked normal
InspectionB ==
    [EmptyInspection EXCEPT
       !.meta.inspectionDate = Str(<<"e">>),
       !.checklist = << [sectionCode |-> Str(Code11), description |-> Str(<<"x">>),
                         status |-> STATUS_NORMAL, notes |-> Empty] >>]
Inspections == {InspectionA, InspectionB}

Report(id, inspection) ==
    [id |-> id, name |-> NEW_REPORT_NAME, folder |-> DEFAULT_FOLDER, inspection |-> inspection]

\* the index that goes with a storage: one summary per stored report
IndexOf(store) ==
    LET present == SelectSeq(ReportIdSeq, LAMBDA id : store[id].kind = "json")
    IN  [i \in 1..Len(present) |-> Summary(store[present[i]].report)]

OTHER_SHEET == "other"
TemplateSheet(name) ==
    CASE name = SHEET_CHECKLIST ->
           Sheet(name, Title \cup {<<4, 1, Str(Code11)>>} \cup Placeholders(TRUE, {2, 3, 4}))
      [] name = SHEET_AC ->
           Sheet(name, Title \cup AcRow(2, "item") \cup AcRow(3, "serial"))
      [] OTHER -> Sheet(name, Title)

Table(name) == [name |-> name]
AUTO_FILTER == Str(<<"A", "1", ":", "D", "5">>)
Workbook(names, tables, autoFilter) ==
    [i \in 1..Len(names) |-> Worksheet(TemplateSheet(names[i]), tables, autoFilter)]

\* the four sheets downloadWorkbook looks up, in the order it does
NamedSheets == <<SHEET_CHECKLIST, SHEET_DC, SHEET_AC, SHEET_DEFECTS>>

\* for every subset of the four sheets, a template of these sheets and one
\* more, each holding a named table; and one with sheets missing, whose sheets
\* hold named tables, a table without a name and a sheet-level autoFilter
Templates ==
    { Workbook(SelectSeq(NamedSheets, LAMBDA n : n \in present) \o <<OTHER_SHEET>>,
               <<Table(Str(<<"T", "1">>))>>, Null) :
        present \in SUBSET {NamedSheets[i] : i \in DOMAIN NamedSheets} }
    \cup
    { Workbook(<<SHEET_CHECKLIST, OTHER_SHEET>>,
               <<Table(Str(<<"T", "1">>)), Table(Undef), Table(Str(<<"T", "2">>))>>,
               AUTO_FILTER) }

IdleCall ==
    [ pc |-> "idle", id |-> Null, outcome |-> "", response |-> NoResponse,
      inspection |-> EmptyInspection, allDefects |-> <<>>, stored |-> NoItem,
      wb |-> <<>>, log |-> <<>> ]

ExportInit ==
    /\ template \in Templates
    /\ \E b1 \in {NoItem, Corrupt, Json(Report(R1, InspectionA))} :
         storage = (R1 :> b1) @@ (R2 :> Json(Report(R2, InspectionA)))
    /\ index = IndexOf(storage)
    /\ exportingId = Null
    /\ calls = [c \in Calls |-> IdleCall]
    /\ downloads = <<>>
    /\ TreeIdle /\ FillIdle /\ BakeIdle /\ StoreIdle

\* the end of a handleExport run that entered the try block
Finish(c, call, current, outcome) ==
    /\ calls' = [calls EXCEPT ![c] =
                   [call EXCEPT !.pc = "done", !.outcome = outcome,
                                !.log = Append(@, Did("finally"))]]
    /\ exportingId' = finallyExportingId(current, outcome)

\* a throw inside the try block
Fail(c, call) ==
    Finish(c, [call EXCEPT !.log = @ \o <<Did("throw"), Did("catch")>>], exportingId, "failed")

\* handleExport(id), up to the fetch of the template
HandleExport(c, id) ==
    /\ calls[c].pc = "idle"
    /\ \A earlier \in 1..(c - 1) : calls[earlier].pc # "idle"
    /\ IF guardBlocks(exportingId, id)
       THEN /\ calls' = [calls EXCEPT ![c] = [@ EXCEPT !.pc = "done", !.id = id,
                                                       !.outcome = "busy"]]
            /\ UNCHANGED exportingId
       ELSE LET report == loadReport(storage, id)
                call   == [calls[c] EXCEPT !.id = id, !.stored = storage[id],
                                           !.log = <<Did("guard")>>]
            IN  IF report.id = Null
                THEN Finish(c, call, id, "notFound")
                ELSE /\ calls' = [calls EXCEPT ![c] =
                                    [call EXCEPT !.pc = "fetch",
                                                 !.inspection = report.inspection,
                                                 !.allDefects = exportAllDefects(report.inspection),
                                                 !.log = Append(@, Did("fetch"))]]
                     /\ exportingId' = id
    /\ UNCHANGED <<template, storage, index, downloads, treeVars, fillVars, bakeVars, storeVars>>

\* loadTemplate after the fetch settles
FetchSettles(c) ==
    /\ calls[c].pc = "fetch"
    /\ \E response \in Responses :
         LET call == [calls[c] EXCEPT !.response = response]
         IN  IF response.settled = "rejected" \/ loadTemplateThrows(response)
             THEN Fail(c, call)
             ELSE /\ calls' = [calls EXCEPT ![c] =
                                 [call EXCEPT !.pc = "buffer",
                                              !.log = Append(@, Did("arrayBuffer"))]]
                  /\ UNCHANGED exportingId
    /\ UNCHANGED <<template, storage, index, downloads, treeVars, fillVars, bakeVars, storeVars>>

\* loadTemplate after response.arrayBuffer() settles
BufferSettles(c) ==
    /\ calls[c].pc = "buffer"
    /\ \E ok \in BOOLEAN :
         IF ok
         THEN /\ calls' = [calls EXCEPT ![c].pc = "load", ![c].log = Append(@, Did("load"))]
              /\ UNCHANGED exportingId
         ELSE Fail(c, calls[c])
    /\ UNCHANGED <<template, storage, index, downloads, treeVars, fillVars, bakeVars, storeVars>>

\* downloadWorkbook after wb.xlsx.load settles: fills, bakes, table stripping
LoadSettles(c) ==
    /\ calls[c].pc = "load"
    /\ \E ok \in BOOLEAN :
         IF ok
         THEN /\ calls' = [calls EXCEPT ![c] =
                 [@ EXCEPT !.pc = "write",
                           !.wb = stripTables(fillAndBake(template,
                                                          inspectionRead(calls[c], storage),
                                                          Given(calls[c].allDefects))),
                           !.log = @ \o FillEvents(template)
                                     \o <<Did("strip"), Did("writeBuffer")>>]]
              /\ UNCHANGED exportingId
         ELSE Fail(c, calls[c])
    /\ UNCHANGED <<template, storage, index, downloads, treeVars, fillVars, bakeVars, storeVars>>

\* downloadWorkbook after wb.xlsx.writeBuffer settles: the download
WriteSettles(c) ==
    /\ calls[c].pc = "write"
    /\ \E ok \in BOOLEAN :
         IF ok
         THEN /\ downloads' = Append(downloads,
                    [ call |-> c, wb |-> calls[c].wb,
                      fileName |-> FileName(inspectionRead(calls[c], storage)) ])
              /\ Finish(c, [calls[c] EXCEPT !.log = Append(@, Did("click"))],
                        exportingId, "downloaded")
         ELSE /\ Fail(c, calls[c])
              /\ UNCHANGED downloads
    /\ UNCHANGED <<template, storage, index, treeVars, fillVars, bakeVars, storeVars>>

\* saveReport(report)
SaveReport(id, inspection) ==
    /\ storage' = [storage EXCEPT ![id] = Json(Report(id, inspection))]
    /\ index' = saveIndexEntry(index, Report(id, inspection))
    /\ UNCHANGED <<template, exportingId, calls, downloads, treeVars, fillVars, bakeVars, storeVars>>

\* deleteReport(id)
DeleteReport(id) ==
    /\ storage' = [storage EXCEPT ![id] = NoItem]
    /\ index' = SelectSeq(index, LAMBDA r : r.id # id)
    /\ UNCHANGED <<template, exportingId, calls, downloads, treeVars, fillVars, bakeVars, storeVars>>

Settles(c) == FetchSettles(c) \/ BufferSettles(c) \/ LoadSettles(c) \/ WriteSettles(c)

ExportNext ==
    \/ \E c \in Calls, id \in ReportIds : HandleExport(c, id)
    \/ \E c \in Calls : FetchSettles(c)
    \/ \E c \in Calls : BufferSettles(c)
    \/ \E c \in Calls : LoadSettles(c)
    \/ \E c \in Calls : WriteSettles(c)
    \/ \E id \in EditedIds, inspection \in Inspections : SaveReport(id, inspection)
    \/ \E id \in EditedIds : DeleteReport(id)

SpecExport == ExportInit /\ [][ExportNext]_vars

\* every awaited step eventually settles
SpecExportFair == SpecExport /\ \A c \in Calls : WF_vars(Settles(c))

(***************************************************************************)
(* The inspection store (inspection.svelte.ts).  Each store operation is   *)
(* an operator from the report to [report |-> the report afterwards,       *)
(* saved |-> whether the operation called save()].  A Partial<T> argument  *)
(* is a record of the properties that are given.                           *)
(***************************************************************************)
\* Object.assign(target, updates) and { ...target, ...updates }
Assign(target, updates) ==
    [f \in DOMAIN target |-> IF f \in DOMAIN updates THEN updates[f] ELSE target[f]]

\* array.find(pred): the position of the first element of positions S, 0 for none
First(S) == IF S = {} THEN 0 ELSE CHOOSE i \in S : \A j \in S : i <= j

Saved(report)    == [report |-> report, saved |-> TRUE]
NotSaved(report) == [report |-> report, saved |-> FALSE]

\* the checklist and AC catalogs: sections 1 and 10, AC items 1.1 and 1.2
Code101 == <<"1", "0", ".", "1">>
ChecklistCatalog == <<Code11, Code12, Code101>>
AcCatalog == <<Code11, Code12>>

\* their descriptions: an instruction that opens with a verb and a particle
\* and has a second sentence, a plain word, and a text of 61 characters
ChecklistDescriptions ==
    << <<"b", "d", "o", "k", " ", "a", "t", " ", "x", " ", ".", " ", "y">>,
       <<"x">>,
       [i \in 1..61 |-> "a"] >>

createChecklistFromTemplate ==
    [i \in 1..Len(ChecklistCatalog) |->
       [sectionCode |-> Str(ChecklistCatalog[i]), description |-> Str(ChecklistDescriptions[i]),
        status |-> Empty, notes |-> Empty]]

createAcMeasurementsFromTemplate ==
    [i \in 1..Len(AcCatalog) |->
       [itemCode |-> Str(AcCatalog[i]), result |-> Undef, notes |-> Empty]]

STRING_LABELS == <<"A", "B", "C", "D", "E", "F", "G", "H", "I", "J", "K", "L", "M",
                   "N", "O", "P", "Q", "R", "S", "T", "U", "V", "W", "X", "Y", "Z">>

\* STRING_LABELS[i] || `S${i + 1}`
StringLabel(i) ==
    IF i < Len(STRING_LABELS) THEN Str(<<STRING_LABELS[i + 1]>>)
    ELSE Str(<<"S">> \o NatToString(i + 1))

\* crypto.randomUUID(): ids are interchangeable, and a fresh one differs from
\* every id in use; the k-th id of the pool is "u" followed by k
Uuid(k) == Str(<<"u">> \o NatToString(k))
RECURSIVE randomUUIDs(_, _, _)
\* n fresh ids, none of them in used, from the k-th of the pool on
randomUUIDs(used, n, k) ==
    IF n = 0 THEN <<>>
    ELSE IF Uuid(k) \in used THEN randomUUIDs(used, n, k + 1)
         ELSE <<Uuid(k)>> \o randomUUIDs(used, n - 1, k + 1)

IdsOf(ms) == {ms[i].id : i \in DOMAIN ms}

\* the pool ids a session can be handed
MaxUuids == 4
\* the place in the pool of the id that is drawn when one measurement is
\* appended: the one after the last id in use, so that ids follow the order
\* of the array
NextUuid(used) ==
    1 + Max(0, CHOOSE k \in 0..MaxUuids :
                 /\ k > 0 => Uuid(k) \in used
                 /\ \A j \in (k + 1)..MaxUuids : Uuid(j) \notin used)

RECURSIVE flatStrings(_)
\* configs.flatMap(inv => Array.from({ length: inv.stringCount }, ...)): the
\* inverter index and label of each generated string
flatStrings(configs) ==
    IF configs = <<>> THEN <<>>
    ELSE [i \in 1..Head(configs).stringCount |->
            [inverterIndex |-> Head(configs).index, stringLabel |-> StringLabel(i - 1)]]
         \o flatStrings(Tail(configs))

\* generateDcMeasurements; used are the ids of the measurements it replaces
generateDcMeasurements(configs, used) ==
    LET s   == flatStrings(configs)
        ids == randomUUIDs(used, Len(s), 1)
    IN  [i \in 1..Len(s) |->
           createDcMeasurement(ids[i], s[i].inverterIndex, s[i].stringLabel, Null)]

RECURSIVE getDescendantIds(_, _)
RECURSIVE descendantsFrom(_, _, _)
\* getDescendantIds: all descendant ids of a measurement, in push order
getDescendantIds(ms, parentId) == descendantsFrom(ms, parentId, 1)
\* its for loop, from array position i on
descendantsFrom(ms, parentId, i) ==
    IF i > Len(ms) THEN <<>>
    ELSE (IF ms[i].parentId = parentId
          THEN <<ms[i].id>> \o getDescendantIds(ms, ms[i].id)
          ELSE <<>>)
         \o descendantsFrom(ms, parentId, i + 1)

nextChildLabel(ms, parentId, parentLabel) ==
    LET siblings == SelectSeq(ms, LAMBDA m : m.parentId = parentId)
    IN  Str(JsString(parentLabel) \o <<".">> \o NatToString(Len(siblings) + 1))

nextTopLevelLabel(ms, inverterIndex) ==
    LET topLevel == SelectSeq(ms, LAMBDA m : m.inverterIndex = inverterIndex /\ m.parentId = Null)
        usedLetters == {topLevel[i].stringLabel : i \in DOMAIN topLevel}
        free == {i \in 1..Len(STRING_LABELS) : Str(<<STRING_LABELS[i]>>) \notin usedLetters}
    IN  IF free # {} THEN Str(<<STRING_LABELS[First(free)]>>)
        ELSE Str(<<"S">> \o NatToString(Len(topLevel) + 1))

generateInverterSerials(configs) ==
    [i \in 1..Len(configs) |-> [inverterIndex |-> configs[i].index, serialNumber |-> Empty]]

\* A plausible slip: every template item is pushed, present or not.
syncWithTemplate_pushAll(list, items, key) ==
    IF Len(list) = 0 THEN items ELSE list \o items

\* the constructor's template sync of a list keyed by field key: an empty list
\* becomes the template; otherwise the template items whose key the list
\* lacked at the start are pushed
syncWithTemplate(list, items, key) ==
    IF Len(list) = 0 THEN items
    ELSE LET existing == {list[i][key] : i \in DOMAIN list}
         IN  list \o SelectSeq(items, LAMBDA item : item[key] \notin existing)

RECURSIVE migrateDc(_, _)
\* the constructor's legacy backfill, from array position i on
migrateDc(ms, i) ==
    IF i > Len(ms) THEN ms
    ELSE LET m  == ms[i]
             m1 == IF ~Truthy(m.id)
                   THEN [m EXCEPT !.id = randomUUIDs(IdsOf(ms), 1, 1)[1]] ELSE m
             m2 == IF m1.parentId = Undef THEN [m1 EXCEPT !.parentId = Null] ELSE m1
         IN  migrateDc([ms EXCEPT ![i] = m2], i + 1)

\* createInspectionStore(report): currentReport once the constructor has run
createInspectionStore(report) ==
    [report EXCEPT
       !.inspection.checklist =
          syncWithTemplate(@, createChecklistFromTemplate, "sectionCode"),
       !.inspection.dcMeasurements = migrateDc(@, 1),
       !.inspection.acMeasurements =
          syncWithTemplate(@, createAcMeasurementsFromTemplate, "itemCode")]

updateReportName(report, name) == Saved([report EXCEPT !.name = name])

updateMeta(report, meta) ==
    LET r == [report EXCEPT !.inspection.meta = Assign(@, meta)]
    IN  Saved(IF /\ "siteName" \in DOMAIN meta
                 /\ Truthy(meta.siteName)
                 /\ (report.name = NEW_REPORT_NAME \/ ~Truthy(report.name))
              THEN [r EXCEPT !.name = meta.siteName]
              ELSE r)

\* 'ממיר ', the default inverter label, transliterated
INVERTER_LABEL == <<"m", "m", "i", "r", " ">>

setInverterConfigs(report, count, defaultStrings) ==
    LET existing == report.inspection.inverterConfigs
        configs  == [i \in 1..count |->
                       [ index |-> i,
                         label |-> IF i <= Len(existing) THEN existing[i].label
                                   ELSE Str(INVERTER_LABEL \o NatToString(i)),
                         stringCount |-> IF i <= Len(existing) THEN existing[i].stringCount
                                         ELSE defaultStrings ]]
    IN  Saved([report EXCEPT
                 !.inspection.inverterConfigs = configs,
                 !.inspection.dcMeasurements =
                    generateDcMeasurements(configs, IdsOf(@)),
                 !.inspection.inverterSerials = generateInverterSerials(configs)])

\* A plausible slip: the serial list is left as it is.
updateInverterConfig_keepsSerials(report, configIndex, updates) ==
    LET configs == report.inspection.inverterConfigs
        at == First({i \in DOMAIN configs : configs[i].index = configIndex})
    IN  IF at = 0 THEN NotSaved(report)
        ELSE LET assigned == [configs EXCEPT ![at] = Assign(@, updates)]
             IN  Saved([report EXCEPT
                          !.inspection.inverterConfigs = assigned,
                          !.inspection.dcMeasurements =
                             generateDcMeasurements(assigned, IdsOf(@))])

updateInverterConfig(report, configIndex, updates) ==
    LET configs == report.inspection.inverterConfigs
        at == First({i \in DOMAIN configs : configs[i].index = configIndex})
    IN  IF at = 0 THEN NotSaved(report)
        ELSE LET assigned == [configs EXCEPT ![at] = Assign(@, updates)]
             IN  Saved([report EXCEPT
                          !.inspection.inverterConfigs = assigned,
                          !.inspection.dcMeasurements =
                             generateDcMeasurements(assigned, IdsOf(@)),
                          !.inspection.inverterSerials = generateInverterSerials(assigned)])

\* A plausible slip: the item is updated and save() is not called.
updateChecklistItem_unsaved(report, sectionCode, status, notes) ==
    LET list == report.inspection.checklist
        at == First({i \in DOMAIN list : list[i].sectionCode = sectionCode})
    IN  IF at = 0 THEN NotSaved(report)
        ELSE NotSaved([report EXCEPT
                         !.inspection.checklist[at].status = IF status # Undef THEN status ELSE @,
                         !.inspection.checklist[at].notes  = IF notes # Undef THEN notes ELSE @])

updateChecklistItem(report, sectionCode, status, notes) ==
    LET list == report.inspection.checklist
        at == First({i \in DOMAIN list : list[i].sectionCode = sectionCode})
    IN  IF at = 0 THEN NotSaved(report)
        ELSE Saved([report EXCEPT
                      !.inspection.checklist[at].status = IF status # Undef THEN status ELSE @,
                      !.inspection.checklist[at].notes  = IF notes # Undef THEN notes ELSE @])

\* A plausible slip: the section code is matched without the dot after it.
markSectionAllOk_prefix(report, sectionCode) ==
    Saved([report EXCEPT !.inspection.checklist =
             [i \in DOMAIN @ |->
                IF /\ StartsWith(JsString(@[i].sectionCode), JsString(sectionCode))
                   /\ ~Truthy(@[i].status)
                THEN [@[i] EXCEPT !.status = STATUS_NORMAL]
                ELSE @[i]]])

markSectionAllOk(report, sectionCode) ==
    Saved([report EXCEPT !.inspection.checklist =
             [i \in DOMAIN @ |->
                IF /\ StartsWith(JsString(@[i].sectionCode), JsString(sectionCode) \o <<".">>)
                   /\ ~Truthy(@[i].status)
                THEN [@[i] EXCEPT !.status = STATUS_NORMAL]
                ELSE @[i]]])

updateDcMeasurement(report, id, updates) ==
    LET ms == report.inspection.dcMeasurements
        at == First({i \in DOMAIN ms : ms[i].id = id})
    IN  IF at = 0 THEN NotSaved(report)
        ELSE Saved([report EXCEPT !.inspection.dcMeasurements[at] = Assign(@, updates)])

\* id is the id crypto.randomUUID() draws
addDcString(report, inverterIndex) ==
    LET ms == report.inspection.dcMeasurements
        label == nextTopLevelLabel(ms, inverterIndex)
        id == randomUUIDs(IdsOf(ms), 1, NextUuid(IdsOf(ms)))[1]
    IN  Saved([report EXCEPT !.inspection.dcMeasurements =
                 Append(@, createDcMeasurement(id, inverterIndex, label, Null))])

RECURSIVE nestingDepth(_, _, _)
\* the while loop of addDcSubstring: depth once it ends, cur being at array
\* position at
nestingDepth(ms, at, depth) ==
    IF ~Truthy(ms[at].parentId) THEN depth
    ELSE LET p == First({i \in DOMAIN ms : ms[i].id = ms[at].parentId})
         IN  IF p = 0 THEN depth + 1 ELSE nestingDepth(ms, p, depth + 1)

\* A plausible slip: the nesting limit is one level too high.
addDcSubstring_deeper(report, parentId) ==
    LET ms == report.inspection.dcMeasurements
        at == First({i \in DOMAIN ms : ms[i].id = parentId})
    IN  IF at = 0 THEN NotSaved(report)
        ELSE IF nestingDepth(ms, at, 0) >= 3 THEN NotSaved(report)
        ELSE LET label == nextChildLabel(ms, parentId, ms[at].stringLabel)
                 id == randomUUIDs(IdsOf(ms), 1, NextUuid(IdsOf(ms)))[1]
             IN  Saved([report EXCEPT !.inspection.dcMeasurements =
                          Append(@, createDcMeasurement(id, ms[at].inverterIndex, label, parentId))])

\* A plausible slip: the sub-string goes to the first inverter, not to its
\* parent's.
addDcSubstring_firstInverter(report, parentId) ==
    LET ms == report.inspection.dcMeasurements
        at == First({i \in DOMAIN ms : ms[i].id = parentId})
    IN  IF at = 0 THEN NotSaved(report)
        ELSE IF nestingDepth(ms, at, 0) >= 2 THEN NotSaved(report)
        ELSE LET label == nextChildLabel(ms, parentId, ms[at].stringLabel)
                 id == randomUUIDs(IdsOf(ms), 1, NextUuid(IdsOf(ms)))[1]
             IN  Saved([report EXCEPT !.inspection.dcMeasurements =
                          Append(@, createDcMeasurement(id, 1, label, parentId))])

addDcSubstring(report, parentId) ==
    LET ms == report.inspection.dcMeasurements
        at == First({i \in DOMAIN ms : ms[i].id = parentId})
    IN  IF at = 0 THEN NotSaved(report)
        ELSE IF nestingDepth(ms, at, 0) >= 2 THEN NotSaved(report)
        ELSE LET label == nextChildLabel(ms, parentId, ms[at].stringLabel)
                 id == randomUUIDs(IdsOf(ms), 1, NextUuid(IdsOf(ms)))[1]
             IN  Saved([report EXCEPT !.inspection.dcMeasurements =
                          Append(@, createDcMeasurement(id, ms[at].inverterIndex, label, parentId))])

\* A plausible slip: only the measurement and its children are removed.
removeDcMeasurement_children(report, id) ==
    Saved([report EXCEPT !.inspection.dcMeasurements =
             SelectSeq(@, LAMBDA m : m.id # id /\ m.parentId # id)])

removeDcMeasurement(report, id) ==
    LET ms == report.inspection.dcMeasurements
        descendants == getDescendantIds(ms, id)
        idsToRemove == {id} \cup {descendants[i] : i \in DOMAIN descendants}
    IN  Saved([report EXCEPT !.inspection.dcMeasurements =
                 SelectSeq(ms, LAMBDA m : m.id \notin idsToRemove)])

updateAcMeasurement(report, itemCode, result, notes) ==
    LET list == report.inspection.acMeasurements
        at == First({i \in DOMAIN list : list[i].itemCode = itemCode})
    IN  IF at = 0 THEN NotSaved(report)
        ELSE Saved([report EXCEPT
                      !.inspection.acMeasurements[at].result = IF result # Undef THEN result ELSE @,
                      !.inspection.acMeasurements[at].notes  = IF notes # Undef THEN notes ELSE @])

updateInverterSerial(report, inverterIndex, serialNumber) ==
    LET list == report.inspection.inverterSerials
        at == First({i \in DOMAIN list : list[i].inverterIndex = inverterIndex})
    IN  IF at = 0 THEN NotSaved(report)
        ELSE Saved([report EXCEPT !.inspection.inverterSerials[at].serialNumber = serialNumber])

\* defect?.component ?? '', ...
addDefect(report, defect) ==
    Saved([report EXCEPT !.inspection.defects =
             Append(@, Assign([component |-> Empty, fault |-> Empty,
                               location |-> Empty, status |-> Empty], defect))])

\* defects.splice(i, 1), i being 0-based and not negative
removeDefect(report, i) ==
    Saved([report EXCEPT !.inspection.defects =
             IF i < Len(@) THEN SubSeq(@, 1, i) \o SubSeq(@, i + 2, Len(@)) ELSE @])

duplicateDefect(report, i) ==
    LET defects == report.inspection.defects
    IN  IF i >= Len(defects) THEN NotSaved(report)
        ELSE Saved([report EXCEPT !.inspection.defects =
                      SubSeq(defects, 1, i + 1) \o <<defects[i + 1]>>
                      \o SubSeq(defects, i + 2, Len(defects))])

\* getSectionTitle: the title of the section an item code belongs to
getSectionTitle(sectionCode) == SectionTitle(BeforeDot(JsString(sectionCode)))

\* the verbs and particles of shortenFault's first pattern, and the prefix of
\* its second, transliterated
FAULT_VERBS ==
    { <<"v", "d", "a">>, <<"b", "d", "o", "k">>, <<"b", "t", "z", "a">>,
      <<"t", "z", "i", "n">>, <<"h", "z", "k">>, <<"m", "d", "o", "d">> }
FAULT_PARTICLES == { <<"a", "t">>, <<"k", "i">>, <<"a", "l">> }
FAULT_PREFIX == <<"h", "m", "t", "z", "a", "o", "t", " ", "v">>

\* s starts with word, and white space follows it
StartsWithWord(s, word) ==
    /\ StartsWith(s, word)
    /\ Len(s) > Len(word)
    /\ IsSpace(s[Len(word) + 1])

\* s without its first n characters
Drop(s, n) == SubSeq(s, n + 1, Len(s))

\* desc.replace(/^(verb)\s+(particle\s+)?/i, '')
stripVerb(s) ==
    IF \E verb \in FAULT_VERBS : StartsWithWord(s, verb)
    THEN LET verb == CHOOSE v \in FAULT_VERBS : StartsWithWord(s, v)
             rest == TrimStart(Drop(s, Len(verb)))
         IN  IF \E particle \in FAULT_PARTICLES : StartsWithWord(rest, particle)
             THEN LET particle == CHOOSE q \in FAULT_PARTICLES : StartsWithWord(rest, q)
                  IN  TrimStart(Drop(rest, Len(particle)))
             ELSE rest
    ELSE s

\* .replace(/^(prefix)/, '')
stripPrefix(s) == IF StartsWith(s, FAULT_PREFIX) THEN Drop(s, Len(FAULT_PREFIX)) ELSE s

\* s.split(separator, 1)[0] for a separator that matches at the positions in
\* at: what precedes the first match
BeforeFirst(s, at) == IF at = {} THEN s ELSE SubSeq(s, 1, First(at) - 1)

\* s.split(/[.;]/, 1)[0].split(' - ', 1)[0]
firstClause(s) ==
    LET sentence == BeforeFirst(s, {i \in DOMAIN s : s[i] \in {".", ";"}})
    IN  BeforeFirst(sentence, {i \in 1..(Len(sentence) - 2) :
                                 SubSeq(sentence, i, i + 2) = <<" ", "-", " ">>})

FAULT_MAX  == 60
FAULT_KEEP == 57

\* shortenFault
shortenFault(desc) ==
    LET s == Trim(firstClause(stripPrefix(stripVerb(JsString(desc)))))
    IN  Str(IF Len(s) > FAULT_MAX THEN SubSeq(s, 1, FAULT_KEEP) \o <<".", ".", ".">> ELSE s)

\* the store's derived autoDefects
autoDefects(report) ==
    LET faulty == SelectSeq(report.inspection.checklist, LAMBDA c : c.status = STATUS_FAULTY)
    IN  [i \in 1..Len(faulty) |->
           [ sectionCode |-> faulty[i].sectionCode,
             component   |-> getSectionTitle(faulty[i].sectionCode),
             fault       |-> shortenFault(faulty[i].description),
             location    |-> Str(LOCATION_PREFIX \o JsString(faulty[i].sectionCode)),
             status      |-> IF Truthy(faulty[i].notes) THEN faulty[i].notes ELSE Empty ]]

\* A plausible slip: the user's defects come first.
allDefects_userFirst(report) == report.inspection.defects \o autoDefects(report)

\* the store's derived allDefects
allDefects(report) == autoDefects(report) \o report.inspection.defects

(***************************************************************************)
(* SpecStore: one inspection store, created on the stored report r1 and    *)
(* created again whenever the page loads the report anew.  A session edits *)
(* one part of the report, and the other parts hold what the stored report *)
(* held: "meta" (name and metadata), "config" (inverter configs, and the   *)
(* DC measurements and serial numbers generated from them), "dc" (DC       *)
(* measurements), "checklist" (checklist and defects) or "ac" (the AC      *)
(* sheet: AC measurements, serial numbers and the inverter count).         *)
(***************************************************************************)
MaxInverters    == 2    \* inverters setInverterConfigs is asked for
MaxStrings      == 2    \* strings per inverter that a config asks for
MaxStoreNodes   == 4    \* DC measurements of the report
MaxRelabelled   == 1    \* DC measurements that updateDcMeasurement has relabelled
MaxStoreDefects == 2    \* user-authored defects of the report

Parts == {"meta", "config", "dc", "checklist", "ac"}

\* the ids an operation may be called with: those the report holds, and
\* Uuid(0), which no measurement carries
IdsCalled == IdsOf(currentReport.inspection.dcMeasurements) \cup {Uuid(0)}

\* a report as handleNew stores it
NewReport == Report(R1, EmptyInspection)

\* a report of an earlier version: the checklist and AC list lack catalog
\* items and hold one the catalog no longer has, the DC measurement has
\* neither id nor parentId
LegacyReport ==
    [ Report(R1,
        [EmptyInspection EXCEPT
           !.meta.siteName = Str(<<"s">>),
           !.inverterConfigs = << [index |-> 1, label |-> Str(<<"c">>), stringCount |-> 1] >>,
           !.checklist = << [sectionCode |-> Str(Code101), description |-> Str(<<"y">>),
                             status |-> STATUS_FAULTY, notes |-> Str(<<"n">>)],
                            [sectionCode |-> Str(<<"9", ".", "9">>), description |-> Str(<<"z">>),
                             status |-> Empty, notes |-> Empty],
                            [sectionCode |-> Str(Code11), description |-> Str(<<"x">>),
                             status |-> STATUS_NORMAL, notes |-> Empty] >>,
           !.dcMeasurements =
              << [createDcMeasurement(Undef, 1, StringLabel(0), Undef)
                    EXCEPT !.panelCount = Num(5)] >>,
           !.acMeasurements = << [itemCode |-> Str(Code12), result |-> Str(<<"r">>),
                                  notes |-> Empty] >>,
           !.inverterSerials = << [inverterIndex |-> 1, serialNumber |-> SerialNumbers[1]] >>])
      EXCEPT !.name = Str(<<"o", "l", "d">>) ]

\* a report of this version: one inverter whose string A has the sub-string
\* A.1 and that the sub-string A.1.1, a faulty checklist item, a defect
FullReport ==
    [ Report(R1,
        [EmptyInspection EXCEPT
           !.meta.siteName = Str(<<"s">>),
           !.inverterConfigs = << [index |-> 1, label |-> Str(<<"c">>), stringCount |-> 1] >>,
           !.checklist = [createChecklistFromTemplate EXCEPT ![1].status = STATUS_FAULTY],
           !.dcMeasurements =
              << [createDcMeasurement(Uuid(1), 1, StringLabel(0), Null)
                    EXCEPT !.panelCount = Num(5)],
                 createDcMeasurement(Uuid(2), 1, Str(<<"A", ".", "1">>), Uuid(1)),
                 createDcMeasurement(Uuid(3), 1, Str(<<"A", ".", "1", ".", "1">>), Uuid(2)) >>,
           !.acMeasurements = createAcMeasurementsFromTemplate,
           !.inverterSerials = << [inverterIndex |-> 1, serialNumber |-> Empty] >>,
           !.defects = << [component |-> Str(<<"c">>), fault |-> Str(<<"f">>),
                           location |-> Empty, status |-> Empty] >>])
      EXCEPT !.name = Str(<<"s">>) ]

StoredReports == {NewReport, LegacyReport, FullReport}

StoreInit ==
    /\ \E report \in StoredReports : storage = [id \in ReportIds |->
                                                  IF id = R1 THEN Json(report) ELSE NoItem]
    /\ index = IndexOf(storage)
    /\ editing \in Parts
    /\ currentReport = NullReport
    /\ lastOp = NoOp
    /\ template = <<>> /\ exportingId = Null /\ calls = <<>> /\ downloads = <<>>
    /\ TreeIdle /\ FillIdle /\ BakeIdle

\* the report page: createInspectionStore(loadReport(id))
CreateInspectionStore ==
    /\ loadReport(storage, R1) # NullReport
    /\ currentReport' = createInspectionStore(loadReport(storage, R1))
    /\ lastOp' = [op |-> "createInspectionStore", arg |-> <<>>, saved |-> FALSE]
    /\ UNCHANGED <<editing, exportVars, treeVars, fillVars, bakeVars>>

\* the DC measurements that carry the label updateDcMeasurement is called with
Relabelled(report) ==
    LET ms == report.inspection.dcMeasurements
    IN  {i \in DOMAIN ms : ms[i].stringLabel = Str(<<"Z">>)}

WithinBounds(report) ==
    /\ Len(report.inspection.dcMeasurements) <= MaxStoreNodes
    /\ Len(report.inspection.defects) <= MaxStoreDefects

\* a store operation op(arg) whose outcome is result: save() is saveReport
Call(op, arg, result) ==
    /\ currentReport # NullReport
    /\ WithinBounds(result.report)
    /\ currentReport' = result.report
    /\ lastOp' = [op |-> op, arg |-> arg, saved |-> result.saved]
    /\ IF result.saved
       THEN /\ storage' = [storage EXCEPT ![result.report.id] = Json(result.report)]
            /\ index' = saveIndexEntry(index, result.report)
       ELSE UNCHANGED <<storage, index>>
    /\ UNCHANGED <<editing, template, exportingId, calls, downloads,
                   treeVars, fillVars, bakeVars>>

UpdateReportName ==
    \E name \in {Str(<<"n">>), Empty} :
      /\ editing \in {"meta"}
      /\ Call("updateReportName", <<name>>, updateReportName(currentReport, name))

UpdateMeta ==
    \E meta \in { [siteName |-> Str(<<"t">>)],
                  [siteName |-> Empty, inspectorName |-> Str(<<"i">>)] } :
      /\ editing \in {"meta"}
      /\ Call("updateMeta", <<meta>>, updateMeta(currentReport, meta))

\* StepConfig calls it with the default of 4 strings
SetInverterConfigs ==
    \E count \in 1..MaxInverters, defaultStrings \in 1..MaxStrings :
      /\ editing \in {"config", "ac"}
      /\ editing = "ac" => defaultStrings = 1
      /\ Call("setInverterConfigs", <<Num(count), Num(defaultStrings)>>,
              setInverterConfigs(currentReport, count, defaultStrings))

UpdateInverterConfig ==
    \E configIndex \in 1..(MaxInverters + 1),
       updates \in {[label |-> Str(<<"L">>)]} \cup {[stringCount |-> n] : n \in 0..MaxStrings} :
      /\ editing \in {"config"}
      /\ Call("updateInverterConfig", <<Num(configIndex), updates>>,
              updateInverterConfig(currentReport, configIndex, updates))

CodesCalled == {Str(Code11), Str(Code101), Str(<<"7", ".", "7">>)}

UpdateChecklistItem ==
    \E sectionCode \in CodesCalled,
       given \in {<<STATUS_FAULTY, Undef>>, <<Undef, Str(<<"m">>)>>, <<Empty, Empty>>} :
      /\ editing \in {"checklist"}
      /\ Call("updateChecklistItem", <<sectionCode, given[1], given[2]>>,
              updateChecklistItem(currentReport, sectionCode, given[1], given[2]))

MarkSectionAllOk ==
    \E sectionCode \in {Str(<<"1">>), Str(<<"1", "0">>), Str(<<"7">>)} :
      /\ editing \in {"checklist"}
      /\ Call("markSectionAllOk", <<sectionCode>>,
              markSectionAllOk(currentReport, sectionCode))

\* an edit of a measured field, or of the label
UpdateDcMeasurement ==
    /\ editing \in {"dc"}
    /\ currentReport # NullReport
    /\ \E id \in IdsCalled, updates \in {[stringLabel |-> Str(<<"Z">>)]} :
         /\ Cardinality(Relabelled(updateDcMeasurement(currentReport, id, updates).report))
               <= MaxRelabelled
         /\ Call("updateDcMeasurement", <<id, updates>>,
                 updateDcMeasurement(currentReport, id, updates))

AddDcString ==
    \E inverterIndex \in 1..MaxInverters :
      /\ editing \in {"dc"}
      /\ currentReport # NullReport
      /\ NextUuid(IdsCalled) <= MaxUuids
      /\ Call("addDcString", <<Num(inverterIndex)>>,
              addDcString(currentReport, inverterIndex))

AddDcSubstring ==
    /\ editing \in {"dc"}
    /\ currentReport # NullReport
    /\ NextUuid(IdsCalled) <= MaxUuids
    /\ \E parentId \in IdsCalled :
         Call("addDcSubstring", <<parentId>>, addDcSubstring(currentReport, parentId))

RemoveDcMeasurement ==
    /\ editing \in {"dc"}
    /\ currentReport # NullReport
    /\ \E id \in IdsCalled :
         Call("removeDcMeasurement", <<id>>, removeDcMeasurement(currentReport, id))

UpdateAcMeasurement ==
    \E itemCode \in {Str(Code11), Str(<<"7", ".", "7">>)},
       given \in {<<Num(0), Undef>>, <<Undef, Str(<<"m">>)>>} :
      /\ editing \in {"ac"}
      /\ Call("updateAcMeasurement", <<itemCode, given[1], given[2]>>,
              updateAcMeasurement(currentReport, itemCode, given[1], given[2]))

UpdateInverterSerial ==
    \E inverterIndex \in 1..(MaxInverters + 1), serialNumber \in {SerialNumbers[1], Empty} :
      /\ editing \in {"ac"}
      /\ Call("updateInverterSerial", <<Num(inverterIndex), serialNumber>>,
              updateInverterSerial(currentReport, inverterIndex, serialNumber))

AddDefect ==
    \E defect \in {<<>>, [component |-> Str(<<"k">>), status |-> Str(<<"o">>)]} :
      /\ editing \in {"checklist"}
      /\ Call("addDefect", <<defect>>, addDefect(currentReport, defect))

RemoveDefect ==
    \E i \in 0..MaxStoreDefects :
      /\ editing \in {"checklist"}
      /\ Call("removeDefect", <<Num(i)>>, removeDefect(currentReport, i))

DuplicateDefect ==
    \E i \in 0..MaxStoreDefects :
      /\ editing \in {"checklist"}
      /\ Call("duplicateDefect", <<Num(i)>>, duplicateDefect(currentReport, i))

StoreNext ==
    \/ CreateInspectionStore
    \/ UpdateReportName \/ UpdateMeta
    \/ SetInverterConfigs \/ UpdateInverterConfig
    \/ UpdateChecklistItem \/ MarkSectionAllOk
    \/ UpdateDcMeasurement \/ AddDcString \/ AddDcSubstring \/ RemoveDcMeasurement
    \/ UpdateAcMeasurement \/ UpdateInverterSerial
    \/ AddDefect \/ RemoveDefect \/ DuplicateDefect

SpecStore == StoreInit /\ [][StoreNext]_vars

(***************************************************************************)
(* SpecTree: getOrderedDcTree on every array of at most MaxNodes           *)
(* measurements with distinct ids (crypto.randomUUID), any parentId (null, *)
(* the id of any measurement of the array, itself included, or an id that  *)
(* no measurement carries) and any inverter index.                         *)
(***************************************************************************)
MaxNodes == 4
TreeInit ==
    /\ \E n \in 0..MaxNodes :
         \E parent \in [1..n -> {Null} \cup {NodeId(j) : j \in 0..n}] :
           \E inv \in [1..n -> InverterIndices] :
             measurements =
                 [i \in 1..n |-> createDcMeasurement(NodeId(i), inv[i], Empty, parent[i])]
    /\ treeIndex = 0
    /\ tree = <<>>
    /\ FillIdle
    /\ BakeIdle
    /\ ExportIdle
    /\ StoreIdle

GetOrderedDcTree(inverterIndex) ==
    /\ treeIndex = 0
    /\ treeIndex' = inverterIndex
    /\ tree' = getOrderedDcTree(measurements, inverterIndex)
    /\ UNCHANGED <<measurements, fillVars, bakeVars, exportVars, storeVars>>

TreeNext == \E inverterIndex \in InverterIndices : GetOrderedDcTree(inverterIndex)

SpecTree == TreeInit /\ [][TreeNext]_vars

(***************************************************************************)
(* C3                                                                      *)
(***************************************************************************)
\* the measurements of the inverter the tree was asked for, in array order
TreeForInverter == SelectSeq(measurements, LAMBDA m : m.inverterIndex = treeIndex)
ArrayPos(id) == CHOOSE i \in 1..Len(TreeForInverter) : TreeForInverter[i].id = id
TreeIds == {tree[i].measurement.id : i \in 1..Len(tree)}

RECURSIVE IsAncestor(_, _, _)
\* a is reached from d by following parentId at most fuel times within the inverter
IsAncestor(a, d, fuel) ==
    /\ fuel > 0
    /\ \E i \in 1..Len(TreeForInverter) :
         /\ TreeForInverter[i].id = d
         /\ \/ TreeForInverter[i].parentId = a
            \/ IsAncestor(a, TreeForInverter[i].parentId, fuel - 1)

Descendants(a) ==
    {TreeForInverter[i].id : i \in {j \in 1..Len(TreeForInverter) :
                                      IsAncestor(a, TreeForInverter[j].id, Len(TreeForInverter))}}

\* C3: the sequence getOrderedDcTree returns lists no measurement twice, lists
\* every descendant of a listed measurement after it and contiguously (the
\* subtree fills the positions right after the node, so it ends before the
\* node's next sibling), and lists siblings in array order.
C3_DepthFirstOrder ==
    treeIndex # 0 =>
      /\ \A i, j \in 1..Len(tree) :
           tree[i].measurement.id = tree[j].measurement.id => i = j
      /\ \A i \in 1..Len(tree) :
           LET sub == Descendants(tree[i].measurement.id)
           IN  /\ sub \subseteq TreeIds
               /\ i + Cardinality(sub) <= Len(tree)
               /\ {tree[j].measurement.id : j \in (i + 1)..(i + Cardinality(sub))} = sub
      /\ \A i, j \in 1..Len(tree) :
           /\ tree[i].measurement.parentId = tree[j].measurement.parentId
           /\ ArrayPos(tree[i].measurement.id) < ArrayPos(tree[j].measurement.id)
           => i < j

\* a three-level chain followed by a second root, stored children first
C3_Witness ==
    /\ treeIndex # 0
    /\ Len(tree) = 4
    /\ [i \in 1..4 |-> tree[i].depth] = <<0, 1, 2, 0>>
    /\ ArrayPos(tree[3].measurement.id) < ArrayPos(tree[1].measurement.id)

(***************************************************************************)
(* C1                                                                      *)
(***************************************************************************)
\* the rows of the template whose column A, trimmed, reads code
CodeRows(code) ==
    {r \in RowNumbers(ws0) : IsSectionCode(code) /\ Trim(JsString(CellValue(ws0, r, 1))) = code}
\* the row the address map resolves code to: the last one carrying it
RowOf(code) == CHOOSE r \in CodeRows(code) : \A q \in CodeRows(code) : q <= r

\* C1 as claimed: after fillChecklistSheet, for every checklist item whose code
\* resolves to a row, the status cell (column 3) of that row equals the item's
\* status iff the status is non-empty and the notes cell (column 4) equals the
\* item's notes iff the notes are non-empty; where the item's value is empty
\* the cell keeps its pre-fill value.
C1_AsClaimed ==
    filler = "checklist" =>
      \A i \in 1..Len(insp.checklist) :
        LET item == insp.checklist[i]
            code == item.sectionCode.s
        IN  CodeRows(code) # {} =>
              /\ (CellValue(ws, RowOf(code), 3) = item.status) <=> Truthy(item.status)
              /\ ~Truthy(item.status) =>
                   CellValue(ws, RowOf(code), 3) = CellValue(ws0, RowOf(code), 3)
              /\ (CellValue(ws, RowOf(code), 4) = item.notes) <=> Truthy(item.notes)
              /\ ~Truthy(item.notes) =>
                   CellValue(ws, RowOf(code), 4) = CellValue(ws0, RowOf(code), 4)

\* the positions of the checklist items carrying code whose status (notes) is non-empty
StatusWriters(code) ==
    {i \in 1..Len(insp.checklist) :
        insp.checklist[i].sectionCode.s = code /\ Truthy(insp.checklist[i].status)}
NotesWriters(code) ==
    {i \in 1..Len(insp.checklist) :
        insp.checklist[i].sectionCode.s = code /\ Truthy(insp.checklist[i].notes)}
Last(S) == CHOOSE i \in S : \A j \in S : j <= i
\* column 4 of a row once the fixed header cells are written: D2 is the
\* inspection date and D3 the signature, where those are non-empty
AfterHeader(row) ==
    CASE row = 2 /\ Truthy(insp.meta.inspectionDate) -> insp.meta.inspectionDate
      [] row = 3 /\ Truthy(insp.meta.signatureText)  -> insp.meta.signatureText
      [] OTHER -> CellValue(ws0, row, 4)

\* C1 (amended): after fillChecklistSheet, for every section code that a
\* checklist item carries and that resolves to a row, the status cell of that
\* row holds the status of the last item with that code whose status is
\* non-empty, and its pre-fill value when there is none; the notes cell holds
\* the notes of the last such item whose notes are non-empty, and otherwise
\* what the header writes left there (the date in row 2, the signature in row
\* 3, else the pre-fill value).
C1_LastWriterWins ==
    filler = "checklist" =>
      \A i \in 1..Len(insp.checklist) :
        LET code == insp.checklist[i].sectionCode.s
        IN  CodeRows(code) # {} =>
              /\ CellValue(ws, RowOf(code), 3) =
                   IF StatusWriters(code) # {}
                   THEN insp.checklist[Last(StatusWriters(code))].status
                   ELSE CellValue(ws0, RowOf(code), 3)
              /\ CellValue(ws, RowOf(code), 4) =
                   IF NotesWriters(code) # {}
                   THEN insp.checklist[Last(NotesWriters(code))].notes
                   ELSE AfterHeader(RowOf(code))

\* two items carry one code, which two rows carry as well; the later item's
\* status and the earlier item's notes are in the last of the rows
C1_Witness ==
    /\ filler = "checklist"
    /\ Len(insp.checklist) = 2
    /\ insp.checklist[1].sectionCode = insp.checklist[2].sectionCode
    /\ insp.checklist[1].status = STATUS_NORMAL
    /\ insp.checklist[2].status = STATUS_FAULTY
    /\ Cardinality(CodeRows(insp.checklist[1].sectionCode.s)) = 2
    /\ LET row == RowOf(insp.checklist[1].sectionCode.s)
       IN  /\ CellValue(ws, row, 3) = STATUS_FAULTY
           /\ CellValue(ws, row, 4) = insp.checklist[1].notes
           /\ CellValue(ws0, row, 3) = TemplateText

(***************************************************************************)
(* C2                                                                      *)
(***************************************************************************)
\* C2: once a filler has run, every cell the template delivered still
\* references the style object it referenced, every style object holds what
\* it held, and a cell the filler created has the style a created cell has.
C2_StylesUntouched ==
    filler # "none" =>
      /\ DOMAIN ws0.val \subseteq DOMAIN ws.val
      /\ \A x \in DOMAIN ws0.val : ws.sty[x] = ws0.sty[x]
      /\ \A ref \in DOMAIN ws0.rec : ref \in DOMAIN ws.rec /\ ws.rec[ref] = ws0.rec[ref]
      /\ \A x \in DOMAIN ws.val : CellStyle(ws, x[1], x[2]) = CellStyle(ws0, x[1], x[2])

\* a filler has overwritten a placeholder and written a cell the template lacks
C2_Witness ==
    /\ filler # "none"
    /\ \E x \in DOMAIN ws0.val : ws0.val[x] = TemplateText /\ ws.val[x] # TemplateText
    /\ \E x \in DOMAIN ws.val : x \notin DOMAIN ws0.val /\ ws.val[x] # Null

(***************************************************************************)
(* C4, C5                                                                  *)
(***************************************************************************)
BakedRows == bakeArgs.startRow..bakeArgs.endRow
BakedCols == 1..bakeArgs.colCount
\* the rows phase 1 flags: those whose column-1 cell had a solid fill
Flagged(r) == hasSolidFill(ws0, r, 1)
SolidFill(color) ==
    [type |-> "pattern", pattern |-> "solid", fgColor |-> color, bgColor |-> color]

\* C4: after the bake every unflagged row r of [start, end] carries, in all of
\* columns 1..colCount, the first stripe colour when r - start is even and the
\* second when it is odd: the count runs over flagged rows too.
C4_StripeParity ==
    baked =>
      \A r \in BakedRows : ~Flagged(r) =>
        \A c \in BakedCols :
          CellStyle(ws, r, c).fill =
            SolidFill(IF (r - bakeArgs.startRow) % 2 = 0 THEN STRIPE_EVEN ELSE STRIPE_ODD)

\* rows 1..3 baked with the middle row flagged: the row after it is even again
C4_Witness ==
    /\ baked
    /\ bakeArgs.startRow = 1 /\ bakeArgs.endRow = 3 /\ bakeArgs.colCount = 2
    /\ ~Flagged(1) /\ Flagged(2) /\ ~Flagged(3)
    /\ CellStyle(ws, 1, 2).fill = SolidFill(STRIPE_EVEN)
    /\ CellStyle(ws, 3, 2).fill = SolidFill(STRIPE_EVEN)
    /\ CellStyle(ws, 2, 2).fill = CellStyle(ws0, 2, 2).fill

\* C5 as claimed: a cell of [start, end] x 1..colCount that had a solid fill
\* before the bake has the same fill after it, whichever column of its row it
\* is in.
C5_AsClaimed ==
    baked =>
      \A r \in BakedRows : \A c \in BakedCols :
        hasSolidFill(ws0, r, c) => CellStyle(ws, r, c).fill = CellStyle(ws0, r, c).fill

(***************************************************************************)
(* C6 .. C10                                                               *)
(***************************************************************************)
InFlight(c) == calls[c].pc \in {"fetch", "buffer", "load", "write"}
Reached(c, op) == \E i \in DOMAIN calls[c].log : calls[c].log[i].op = op
DownloadsOf(c) == {i \in DOMAIN downloads : downloads[i].call = c}
NotOk(c) == calls[c].response.settled = "resolved" /\ ~calls[c].response.ok

\* C6 as claimed: when an export reaches serialization, no worksheet of its
\* workbook holds a table object or an autoFilter, named or not, on a sheet a
\* filler touched or not.
C6_AsClaimed ==
    \A c \in Calls : Reached(c, "writeBuffer") =>
      \A i \in DOMAIN calls[c].wb :
        calls[c].wb[i].tables = <<>> /\ calls[c].wb[i].autoFilter = Null

\* C7: when the template fetch resolves with a response that is not ok, the
\* export throws, the throw reaches handleExport's catch, and that run fills
\* and bakes no sheet, strips nothing, serializes nothing and downloads nothing.
C7_FetchFailureAborts ==
    \A c \in Calls : NotOk(c) =>
      /\ calls[c].pc = "done" /\ calls[c].outcome = "failed"
      /\ Reached(c, "throw") /\ Reached(c, "catch")
      /\ calls[c].wb = <<>>
      /\ \A op \in {"arrayBuffer", "load", "fill", "bake", "strip", "writeBuffer", "click"} :
           ~Reached(c, op)
      /\ DownloadsOf(c) = {}

\* an export that got HTTP 404 for the template after an earlier one downloaded
C7_Witness ==
    /\ calls[1].outcome = "downloaded"
    /\ NotOk(2) /\ calls[2].response.status = 404 /\ calls[2].outcome = "failed"
    /\ Len(downloads) = 1

\* C8: the guard is held only while an export is outstanding, and every export
\* that holds it ends with the guard back at null, whichever way it ends.
C8_GuardReleased ==
    /\ [](exportingId # Null => \E c \in Calls : InFlight(c) /\ calls[c].id = exportingId)
    /\ \A c \in Calls : InFlight(c) ~> (calls[c].pc = "done" /\ exportingId = Null)

\* one export failed on HTTP 404, one did not find its report: the guard is free
C8_Witness ==
    /\ NotOk(1) /\ calls[1].outcome = "failed" /\ Reached(1, "finally")
    /\ calls[2].outcome = "notFound" /\ Reached(2, "guard") /\ Reached(2, "finally")
    /\ exportingId = Null

\* C9: at most one export is in flight, the guard names it for as long as it
\* is, and a call turned away by the guard has fetched nothing, touched no
\* workbook and downloaded nothing.
C9_OneInFlight ==
    /\ Cardinality({c \in Calls : InFlight(c)}) <= 1
    /\ \A c \in Calls : InFlight(c) => exportingId = calls[c].id
    /\ \A c \in Calls : calls[c].outcome = "busy" =>
         /\ calls[c].log = <<>> /\ calls[c].wb = <<>> /\ DownloadsOf(c) = {}
         /\ \E first \in 1..(c - 1) : calls[first].outcome # "busy"

\* a call for another report turned away while the first export is serializing
C9_Witness ==
    /\ calls[1].pc = "write" /\ exportingId = calls[1].id
    /\ calls[2].outcome = "busy" /\ calls[2].id # calls[1].id

\* what an export of this inspection writes on the template
ExportOf(inspection) ==
    stripTables(fillAndBake(template, inspection, Given(exportAllDefects(inspection))))

\* C10: the workbook an export serializes and downloads, and the file's name,
\* are those of the report as it was stored when handleExport loaded it,
\* whatever was saved or deleted since.
C10_SnapshotExported ==
    /\ \A c \in Calls : Reached(c, "writeBuffer") =>
         calls[c].wb = ExportOf(calls[c].stored.report.inspection)
    /\ \A i \in DOMAIN downloads :
         LET c == downloads[i].call
         IN  /\ Reached(c, "writeBuffer")
             /\ downloads[i].wb = calls[c].wb
             /\ downloads[i].fileName = FileName(calls[c].stored.report.inspection)

\* a download of r1 as loaded, after r1 was saved with other content while the
\* workbook was being parsed
C10_Witness ==
    \E i \in DOMAIN downloads :
      LET c == downloads[i].call
      IN  /\ calls[c].id = R1
          /\ calls[c].stored = Json(Report(R1, InspectionA))
          /\ storage[R1] = Json(Report(R1, InspectionB))
          /\ CellValue(downloads[i].wb[1].ws, 2, 2) = InspectionA.meta.siteName

(***************************************************************************)
(* C11                                                                     *)
(***************************************************************************)
\* the measurement field fillDcSheet writes into column col (3..8)
DcField(m, col) ==
    CASE col = 3 -> m.panelCount
      [] col = 4 -> m.openCircuitVoltage
      [] col = 5 -> m.operatingCurrent
      [] col = 6 -> m.stringRiso
      [] col = 7 -> m.feedRisoNegative
      [] OTHER   -> m.feedRisoPositive

\* scenario A's inspection: one inverter, two top-level strings "A" and "B"
ScenarioA ==
    /\ Len(insp.inverterConfigs) = 1
    /\ Len(insp.dcMeasurements) = 2
    /\ \A i \in 1..2 : /\ insp.dcMeasurements[i].parentId = Null
                       /\ insp.dcMeasurements[i].inverterIndex = insp.inverterConfigs[1].index
    /\ insp.dcMeasurements[1].stringLabel = Str(<<"A">>)
    /\ insp.dcMeasurements[2].stringLabel = Str(<<"B">>)

\* row holds the string m: its label in column 2 and, in columns 3..8, each
\* field that is set; a field that is not set leaves the cell's pre-fill value
HoldsString(row, m) ==
    /\ CellValue(ws, row, 2) = m.stringLabel
    /\ \A col \in 3..8 :
         CellValue(ws, row, col) =
            IF DcField(m, col) # Undef THEN DcField(m, col) ELSE CellValue(ws0, row, col)

\* C11 as claimed: for one inverter with two top-level strings "A" and "B",
\* after fillDcSheet rows 2 and 3 of the DC sheet hold the labels "A" and "B"
\* in the label column and, of the measurement fields, only those set.
C11_AsClaimed ==
    (filler = "dc" /\ ScenarioA) =>
      /\ HoldsString(2, insp.dcMeasurements[1])
      /\ HoldsString(3, insp.dcMeasurements[2])

\* C11 (amended): for one inverter with two top-level strings "A" and "B",
\* after fillDcSheet row 2 holds the inverter's index in column 1 and keeps its
\* pre-fill values elsewhere, rows 3 and 4 hold the labels "A" and "B" in the
\* label column and, of the measurement fields, only those set, and the
\* filler returns 4.
C11_StringsBelowHeader ==
    (filler = "dc" /\ ScenarioA) =>
      /\ CellValue(ws, 2, 1) = Num(insp.inverterConfigs[1].index)
      /\ \A col \in 2..8 : CellValue(ws, 2, col) = CellValue(ws0, 2, col)
      /\ HoldsString(3, insp.dcMeasurements[1])
      /\ HoldsString(4, insp.dcMeasurements[2])
      /\ dcLastRow = 4

\* scenario A on a template with placeholders: "A" has a panel count of 0 and
\* a positive-feed reading, "B" has no field set and keeps the placeholders
C11_Witness ==
    /\ filler = "dc" /\ ScenarioA
    /\ insp.dcMeasurements[1].panelCount = Num(0)
    /\ insp.dcMeasurements[2].panelCount = Undef
    /\ CellValue(ws, 3, 3) = Num(0) /\ CellValue(ws, 3, 8) = Num(7)
    /\ CellValue(ws, 4, 2) = Str(<<"B">>) /\ CellValue(ws, 4, 3) = TemplateText
    /\ CellValue(ws, 2, 2) = TemplateText

(***************************************************************************)
(* C18                                                                     *)
(***************************************************************************)
\* C18: a run of fillDcSheet on a sheet that fillDcSheet has filled before,
\* with the same inspection, leaves every cell's value as it was and returns
\* the number the earlier run returned.
C18_DcFillIdempotent ==
    [][(filler = "dc" /\ filler' = "dc" /\ runs' = runs + 1) =>
         (ws'.val = ws.val /\ dcLastRow' = dcLastRow)]_vars

\* a second run over two inverters and a parent with its child, on a template
\* whose placeholders the first run has overwritten
C18_Witness ==
    /\ filler = "dc" /\ runs = 2
    /\ Len(insp.inverterConfigs) = 2
    /\ Len(insp.dcMeasurements) = 2
    /\ insp.dcMeasurements[2].parentId = insp.dcMeasurements[1].id
    /\ dcLastRow = 5
    /\ ws.val # ws0.val
    /\ \E x \in DOMAIN ws0.val : ws0.val[x] = TemplateText /\ ws.val[x] # TemplateText

(***************************************************************************)
(* C19                                                                     *)
(***************************************************************************)
\* the template's serial rows: those whose column B starts with the marker
MarkerRows ==
    {r \in RowNumbers(ws0) : StartsWith(JsString(CellValue(ws0, r, 2)), SERIAL_MARKER)}
\* the k-th of them in document order
MarkerRow(k) == CHOOSE r \in MarkerRows : Cardinality({q \in MarkerRows : q <= r}) = k

\* C19 as claimed: after fillAcSheet the result column (3) of the N-th serial
\* row holds the serial number at list position N of inspection.inverterSerials
\* when there is one and it is non-empty, and its pre-fill value otherwise.
C19_AsClaimed ==
    filler = "ac" =>
      \A k \in 1..Cardinality(MarkerRows) :
        CellValue(ws, MarkerRow(k), 3) =
          IF k <= Len(insp.inverterSerials) /\ Truthy(insp.inverterSerials[k].serialNumber)
          THEN insp.inverterSerials[k].serialNumber
          ELSE CellValue(ws0, MarkerRow(k), 3)

\* the list positions of the records for inverter k that carry a serial number
SerialWriters(k) ==
    {i \in 1..Len(insp.inverterSerials) :
        /\ insp.inverterSerials[i].inverterIndex = k
        /\ Truthy(insp.inverterSerials[i].serialNumber)}

\* C19 (amended): after fillAcSheet the result column (3) of the N-th serial
\* row, in document order, holds the serial number of the record whose
\* inverterIndex is N (the last such record with a non-empty serial number),
\* wherever in the list that record stands; with no such record the cell keeps
\* its pre-fill value.  A record whose serial number is empty, or whose
\* inverterIndex is below 1 or above the number of serial rows, is written
\* nowhere.
C19_SerialByInverterIndex ==
    filler = "ac" =>
      \A k \in 1..Cardinality(MarkerRows) :
        CellValue(ws, MarkerRow(k), 3) =
          IF SerialWriters(k) # {}
          THEN insp.inverterSerials[Last(SerialWriters(k))].serialNumber
          ELSE CellValue(ws0, MarkerRow(k), 3)

\* two serial rows, two records listed in reverse order of inverter index:
\* each serial number is in its inverter's row, not in the row of its position
C19_Witness ==
    /\ filler = "ac"
    /\ Cardinality(MarkerRows) = 2
    /\ Len(insp.inverterSerials) = 2
    /\ insp.inverterSerials[1].inverterIndex = 2
    /\ insp.inverterSerials[2].inverterIndex = 1
    /\ CellValue(ws, MarkerRow(1), 3) = SerialNumbers[2]
    /\ CellValue(ws, MarkerRow(2), 3) = SerialNumbers[1]
    /\ CellValue(ws0, MarkerRow(1), 3) = TemplateText

(***************************************************************************)
(* C20                                                                     *)
(***************************************************************************)
\* the defect field fillDefectsSheet writes into column col (1..4)
DefectField(d, col) ==
    CASE col = 1 -> d.component
      [] col = 2 -> d.fault
      [] col = 3 -> d.location
      [] OTHER   -> d.status

DcOf(report) == report.inspection.dcMeasurements

\* the ids of the measurements that lie below id: their parent chain, followed
\* for as many links as the list has entries, meets id
RECURSIVE MeetsId(_, _, _, _)
MeetsId(ms, pid, id, links) ==
    IF links = 0 \/ ~Truthy(pid) THEN FALSE
    ELSE \/ pid = id
         \/ \E j \in DOMAIN ms : ms[j].id = pid /\ MeetsId(ms, ms[j].parentId, id, links - 1)
Below(ms, id) ==
    {ms[i].id : i \in {j \in DOMAIN ms : MeetsId(ms, ms[j].parentId, id, Len(ms))}}

\* C12: a step of removeDcMeasurement(id) removes exactly the measurement
\* with that id and every measurement below it (children and grandchildren),
\* leaves every other measurement present, unchanged and in its previous
\* relative order, nothing else of the report changes, and the export tree of
\* no inverter holds a removed measurement afterwards.
C12_RemoveCascades ==
    [][ lastOp'.op = "removeDcMeasurement" =>
          LET ms      == DcOf(currentReport)
              id      == lastOp'.arg[1]
              removed == {id} \cup Below(ms, id)
          IN  /\ DcOf(currentReport') = SelectSeq(ms, LAMBDA m : m.id \notin removed)
              /\ currentReport' = [currentReport EXCEPT
                                     !.inspection.dcMeasurements = DcOf(currentReport')]
              /\ \A inverterIndex \in 1..MaxInverters :
                   LET ordered == getOrderedDcTree(DcOf(currentReport'), inverterIndex)
                   IN  \A e \in DOMAIN ordered : ordered[e].measurement.id \notin removed ]_vars

\* string A, which had the sub-string A.1 and that one A.1.1, was removed from
\* the report that held these three: no measurement is left
C12_Witness ==
    /\ currentReport # NullReport
    /\ lastOp = [op |-> "removeDcMeasurement", arg |-> <<Uuid(1)>>, saved |-> TRUE]
    /\ currentReport.name = FullReport.name
    /\ DcOf(currentReport) = <<>>
    /\ LET stored == DcOf(FullReport)
       IN  Below(stored, Uuid(1)) = {Uuid(2), Uuid(3)}

(***************************************************************************)
(* C13.  The depth of the DC forest.                                       *)
(***************************************************************************)
RECURSIVE LinksToRoot(_, _, _)
\* the parent links from a measurement whose parentId is pid up to a root,
\* followed for at most links links
LinksToRoot(ms, pid, links) ==
    IF links = 0 \/ ~Truthy(pid) THEN 0
    ELSE LET at == {j \in DOMAIN ms : ms[j].id = pid}
         IN  IF at = {} THEN 1
             ELSE 1 + LinksToRoot(ms, ms[CHOOSE j \in at : TRUE].parentId, links - 1)

\* the depth of the measurement at array position i: 0 for a root
DepthAt(ms, i) == LinksToRoot(ms, ms[i].parentId, Len(ms))

\* C13: whatever operations the store has run, every DC measurement of the
\* report is at depth at most 2 (root, child or grandchild); and a step of
\* addDcSubstring on a grandchild changes neither the report nor what is
\* stored.
C13_DepthAtMostTwo ==
    /\ [](currentReport # NullReport =>
            \A i \in DOMAIN DcOf(currentReport) : DepthAt(DcOf(currentReport), i) <= 2)
    /\ [][ (/\ lastOp'.op = "addDcSubstring"
            /\ \E i \in DOMAIN DcOf(currentReport) :
                 /\ DcOf(currentReport)[i].id = lastOp'.arg[1]
                 /\ DepthAt(DcOf(currentReport), i) = 2)
           => /\ currentReport' = currentReport
              /\ storage' = storage
              /\ index' = index
              /\ ~lastOp'.saved ]_vars

\* addDcSubstring was called on the grandchild A.1.1 of a report that has
\* room for one more measurement, and nothing was saved
C13_Witness ==
    /\ currentReport # NullReport
    /\ lastOp = [op |-> "addDcSubstring", arg |-> <<Uuid(3)>>, saved |-> FALSE]
    /\ Len(DcOf(currentReport)) = 3
    /\ Len(DcOf(currentReport)) < MaxStoreNodes
    /\ DepthAt(DcOf(currentReport), 3) = 2
    /\ DcOf(currentReport)[3].id = Uuid(3)

SiblingsUpTo(ms, i) == {j \in 1..i : ms[j].parentId = ms[i].parentId}

\* C15: whatever operations the store has run, removals of siblings and edits
\* of a parent's label included, the label of every sub-string is
\* {parentLabel}.{n}, parentLabel being its parent's current label and n its
\* 1-based sequence number among its siblings.
C15_AsClaimed ==
    currentReport # NullReport =>
      LET ms == DcOf(currentReport)
      IN  \A i, j \in DOMAIN ms :
            (ms[i].parentId # Null /\ ms[j].id = ms[i].parentId) =>
              ms[i].stringLabel =
                Str(JsString(ms[j].stringLabel) \o <<".">>
                      \o NatToString(Cardinality(SiblingsUpTo(ms, i))))

(***************************************************************************)
(* C16.  Every mutation is persisted.                                      *)
(***************************************************************************)
\* the blob stored under the report's id is the report, and the index has
\* one summary for that id, which carries the report's current name, folder,
\* site name, inspector name and inspection date
Persisted(report, store, idx) ==
    /\ store[report.id] = Json(report)
    /\ Cardinality({i \in DOMAIN idx : idx[i].id = report.id}) = 1
    /\ \A i \in DOMAIN idx :
         idx[i].id = report.id =>
           /\ idx[i].name = report.name
           /\ idx[i].folder = report.folder
           /\ idx[i].siteName = report.inspection.meta.siteName
           /\ idx[i].inspectorName = report.inspection.meta.inspectorName
           /\ idx[i].inspectionDate = report.inspection.meta.inspectionDate

\* the operation op(arg) finds no target in the report: no config, checklist
\* item, measurement, serial or defect that its first argument names
TargetMissing(report, op, arg) ==
    LET insp0 == report.inspection
    IN  CASE op = "updateInverterConfig" ->
               \A i \in DOMAIN insp0.inverterConfigs : Num(insp0.inverterConfigs[i].index) # arg[1]
          [] op = "updateChecklistItem" ->
               \A i \in DOMAIN insp0.checklist : insp0.checklist[i].sectionCode # arg[1]
          [] op = "markSectionAllOk" ->
               \A i \in DOMAIN insp0.checklist :
                 ~StartsWith(JsString(insp0.checklist[i].sectionCode), JsString(arg[1]) \o <<".">>)
          [] op \in {"updateDcMeasurement", "addDcSubstring", "removeDcMeasurement"} ->
               arg[1] \notin IdsOf(insp0.dcMeasurements)
          [] op = "updateAcMeasurement" ->
               \A i \in DOMAIN insp0.acMeasurements : insp0.acMeasurements[i].itemCode # arg[1]
          [] op = "updateInverterSerial" ->
               \A i \in DOMAIN insp0.inverterSerials :
                 Num(insp0.inverterSerials[i].inverterIndex) # arg[1]
          [] op \in {"removeDefect", "duplicateDefect"} ->
               arg[1].n >= Len(insp0.defects)
          [] OTHER -> FALSE

\* the operations of the store, the constructor apart
StoreOps ==
    {"updateReportName", "updateMeta", "setInverterConfigs", "updateInverterConfig",
     "updateChecklistItem", "markSectionAllOk", "updateDcMeasurement", "addDcString",
     "addDcSubstring", "removeDcMeasurement", "updateAcMeasurement",
     "updateInverterSerial", "addDefect", "removeDefect", "duplicateDefect"}

\* the operations that call save() whether or not they found a target
SavesRegardless == {"removeDcMeasurement", "removeDefect", "markSectionAllOk"}

SyncedWith(before, after, items, key) ==
    LET had    == {before[i][key] : i \in DOMAIN before}
        absent == SelectSeq(items, LAMBDA item : item[key] \notin had)
        added  == SubSeq(after, Len(before) + 1, Len(after))
    IN  /\ Len(after) >= Len(before)
        /\ SubSeq(after, 1, Len(before)) = before
        /\ \A i \in DOMAIN added : added[i][key] \notin had
        /\ \A c \in DOMAIN items :
             items[c][key] \notin had =>
               Cardinality({i \in DOMAIN added : added[i] = items[c]}) = 1
        /\ Len(added) = Len(absent)
        /\ \A c \in DOMAIN items : \E i \in DOMAIN after : after[i][key] = items[c][key]

\* C17: a step of createInspectionStore on a stored report whose checklist
\* (resp. AC measurement list) is non-empty leaves every existing item
\* unchanged in content and position, appends at the end exactly one entry for
\* each catalog item whose section code (resp. item code) is absent and
\* nothing for codes already present; afterwards every catalog code is
\* present, and creating the store again on the result adds nothing.
C17_SyncAppendsAbsent ==
    [][ lastOp'.op = "createInspectionStore" =>
          LET before == loadReport(storage, R1).inspection
              after  == currentReport'.inspection
              again  == createInspectionStore(currentReport').inspection
          IN  /\ before.checklist # <<>> =>
                   /\ SyncedWith(before.checklist, after.checklist,
                                 createChecklistFromTemplate, "sectionCode")
                   /\ again.checklist = after.checklist
              /\ before.acMeasurements # <<>> =>
                   /\ SyncedWith(before.acMeasurements, after.acMeasurements,
                                 createAcMeasurementsFromTemplate, "itemCode")
                   /\ again.acMeasurements = after.acMeasurements ]_vars

\* the store was created on the legacy report: its three checklist items,
\* one of a code the catalog lacks, are followed by the catalog item 1.2 it
\* lacked, and its AC item 1.2 by the catalog's 1.1
C17_Witness ==
    /\ lastOp.op = "createInspectionStore"
    /\ storage[R1] = Json(LegacyReport)
    /\ currentReport # NullReport
    /\ LET list == currentReport.inspection.checklist
       IN  /\ Len(list) = 4
           /\ SubSeq(list, 1, 3) = LegacyReport.inspection.checklist
           /\ list[4] = createChecklistFromTemplate[2]
           /\ list[4].sectionCode = Str(Code12)
    /\ LET list == currentReport.inspection.acMeasurements
       IN  /\ Len(list) = 2
           /\ list[1] = LegacyReport.inspection.acMeasurements[1]
           /\ list[2].itemCode = Str(Code11)

(***************************************************************************)
(* C21.  What a change of string count regenerates.                        *)
(***************************************************************************)
\* the measurements of the inverters other than k, resp. the strings (roots)
\* of inverter k, in array order
NotOfInverter(ms, k) == SelectSeq(ms, LAMBDA m : m.inverterIndex # k)
StringsOf(ms, k) == SelectSeq(ms, LAMBDA m : m.inverterIndex = k /\ m.parentId = Null)

\* the values entered for a measurement
Entered(m) ==
    << m.panelCount, m.openCircuitVoltage, m.operatingCurrent,
       m.stringRiso, m.feedRisoNegative, m.feedRisoPositive >>

\* C21: a step of updateInverterConfig that changes the string count of
\* inverter k regenerates the measurements of inverter k only: the
\* measurements of every other inverter (ids, sub-strings, entered values) are
\* unchanged, and inverter k has one string per index up to the new count,
\* those up to the old count with the values entered before.
C21_AsClaimed ==
    [][ (/\ lastOp'.op = "updateInverterConfig"
         /\ lastOp'.saved
         /\ "stringCount" \in DOMAIN lastOp'.arg[2])
        => LET k     == lastOp'.arg[1].n
               n     == lastOp'.arg[2].stringCount
               ms    == DcOf(currentReport)
               after == DcOf(currentReport')
           IN  /\ NotOfInverter(after, k) = NotOfInverter(ms, k)
               /\ Len(StringsOf(after, k)) = n
               /\ \A i \in 1..n :
                    i <= Len(StringsOf(ms, k)) =>
                      Entered(StringsOf(after, k)[i]) = Entered(StringsOf(ms, k)[i]) ]_vars

(***************************************************************************)
(* C22.  The two kinds of defects.                                         *)
(***************************************************************************)
\* the positions of the checklist items whose status is the faulty value
FaultyAt(list) == {i \in DOMAIN list : list[i].status = STATUS_FAULTY}

\* the k-th of them in checklist order
KthFaulty(list, k) ==
    CHOOSE i \in FaultyAt(list) : Cardinality({j \in FaultyAt(list) : j <= i}) = k

\* the defects of the blob stored under the report's id
StoredDefects == loadReport(storage, R1).inspection.defects

\* C22: whatever operations the store has run, allDefects is one auto-derived
\* defect per checklist item whose status is the faulty value, in checklist
\* order, followed by the user-authored defects in their stored order; the
\* persisted defects hold no auto-derived entry; and a step of
\* updateChecklistItem or markSectionAllOk changes the defects neither in
\* memory nor in storage.
C22_AutoThenUser ==
    /\ [](currentReport # NullReport =>
            LET list == currentReport.inspection.checklist
                user == currentReport.inspection.defects
                all  == allDefects(currentReport)
                n    == Cardinality(FaultyAt(list))
            IN  /\ Len(all) = n + Len(user)
                /\ \A k \in 1..n :
                     LET item == list[KthFaulty(list, k)]
                     IN  /\ "sectionCode" \in DOMAIN all[k]
                         /\ all[k].sectionCode = item.sectionCode
                         /\ all[k].location = Str(LOCATION_PREFIX \o JsString(item.sectionCode))
                         /\ all[k].fault = shortenFault(item.description)
                /\ \A j \in 1..Len(user) : all[n + j] = user[j]
                /\ \A j \in DOMAIN StoredDefects :
                     /\ "sectionCode" \notin DOMAIN StoredDefects[j]
                     /\ \A k \in 1..n : StoredDefects[j].location # all[k].location)
    /\ [][ lastOp'.op \in {"updateChecklistItem", "markSectionAllOk"} =>
             /\ currentReport'.inspection.defects = currentReport.inspection.defects
             /\ loadReport(storage', R1).inspection.defects = StoredDefects ]_vars

\* two checklist items are faulty, the second one made so by
\* updateChecklistItem just now, and the user has authored a defect
C22_Witness ==
    /\ currentReport # NullReport
    /\ lastOp.op = "updateChecklistItem" /\ lastOp.saved
    /\ lastOp.arg[2] = STATUS_FAULTY
    /\ Cardinality(FaultyAt(currentReport.inspection.checklist)) = 2
    /\ Len(currentReport.inspection.defects) = 1
    /\ Len(allDefects(currentReport)) = 3
    /\ allDefects(currentReport)[3] = currentReport.inspection.defects[1]
    /\ StoredDefects = currentReport.inspection.defects

(***************************************************************************)
(* C23.  Sheets missing from the template.                                 *)
(***************************************************************************)
\* what downloadWorkbook makes of the template's sheet entry: filled and
\* baked by the filler of its name when it is one of the four, as it was
\* otherwise
FilledAndBaked(entry, inspection, defects) ==
    CASE entry.ws.name = SHEET_CHECKLIST ->
           Striped([entry EXCEPT !.ws = fillChecklistSheet(@, inspection)], 2, 84, 4)
      [] entry.ws.name = SHEET_DC ->
           Striped([entry EXCEPT !.ws = fillDcSheet(@, inspection).ws],
                   2, fillDcSheet(entry.ws, inspection).ret, 8)
      [] entry.ws.name = SHEET_AC ->
           Striped([entry EXCEPT !.ws = fillAcSheet(@, inspection)], 2, 42, 4)
      [] entry.ws.name = SHEET_DEFECTS ->
           Striped([entry EXCEPT !.ws = fillDefectsSheet(@, defects)],
                   2, IF Len(defects) >= 1 THEN Len(defects) + 1 ELSE 2, 4)
      [] OTHER -> entry

\* the named sheets the template has
PresentSheets == {template[i].ws.name : i \in DOMAIN template} \cap
                 {NamedSheets[i] : i \in DOMAIN NamedSheets}

\* C23: whichever of the four named sheets the template lacks, an export
\* whose template loaded has thrown nothing, has filled and baked each named
\* sheet that is present and no other, has stripped the named tables of every
\* sheet and has gone on to serialize; and the export whose serialization
\* resolved has triggered the download of that workbook.
C23_MissingSheetsSkipped ==
    \A c \in Calls :
      /\ Reached(c, "writeBuffer") =>
           LET wb == calls[c].wb
               log == calls[c].log
               w == CHOOSE i \in DOMAIN log : log[i].op = "writeBuffer"
           IN  /\ \A i \in 1..w : log[i].op # "throw"
               /\ {log[i].sheet : i \in {j \in DOMAIN log : log[j].op = "fill"}} = PresentSheets
               /\ {log[i].sheet : i \in {j \in DOMAIN log : log[j].op = "bake"}} = PresentSheets
               /\ \E i \in 1..w : log[i].op = "strip"
               /\ Len(wb) = Len(template)
               /\ \A i \in DOMAIN wb :
                    LET made == FilledAndBaked(template[i], calls[c].inspection,
                                               calls[c].allDefects)
                    IN  /\ wb[i].ws = made.ws
                        /\ wb[i].stripes = made.stripes
                        /\ \A t \in DOMAIN wb[i].tables : ~Truthy(wb[i].tables[t].name)
      /\ calls[c].outcome = "downloaded" =>
           \E i \in DownloadsOf(c) : downloads[i].wb = calls[c].wb

\* an export has downloaded a workbook made from a template that has the DC
\* and defects sheets and lacks the checklist and AC sheets
C23_Witness ==
    /\ PresentSheets = {SHEET_DC, SHEET_DEFECTS}
    /\ \E i \in DOMAIN downloads :
         LET c == downloads[i].call
             d == getWorksheet(downloads[i].wb, SHEET_DC)
         IN  /\ calls[c].outcome = "downloaded"
             /\ calls[c].inspection = InspectionA
             /\ d # 0
             /\ downloads[i].wb[d].ws # template[d].ws
             /\ downloads[i].wb[d].stripes.colCount = 8

(***************************************************************************)
(* C24.  What the bake leaves alone.                                       *)
(***************************************************************************)
\* the cells phase 2 assigns a style to
Recoloured(r, c) == r \in BakedRows /\ ~Flagged(r) /\ c \in BakedCols
\* every cell position of the sheet, before or after the bake
BakePositions == DOMAIN ws0.val \cup DOMAIN ws.val

\* C24: after the bake every cell outside the unflagged rows of [start, end]
\* and the columns 1..colCount has the style it had and references the style
\* object it referenced, also when a recoloured cell shared that object; and
\* every row of the range that was unflagged on the sheet as it was before the
\* bake is recoloured, so no row is skipped on account of a row recoloured
\* before it.
C24_OnlyUnflaggedRecoloured ==
    baked =>
      /\ \A x \in BakePositions :
           ~Recoloured(x[1], x[2]) =>
             /\ CellStyle(ws, x[1], x[2]) = CellStyle(ws0, x[1], x[2])
             /\ x \in DOMAIN ws0.val => (x \in DOMAIN ws.val /\ ws.sty[x] = ws0.sty[x])
      /\ \A r \in BakedRows : \A c \in BakedCols :
           ~Flagged(r) =>
             /\ hasSolidFill(ws, r, c)
             /\ CellStyle(ws, r, c).fill.fgColor \in {STRIPE_EVEN, STRIPE_ODD}
             /\ ws.sty[<<r, c>>] = <<r, c>>

\* rows 1..2 baked over one column: row 1 is recoloured, the cells beside it,
\* in the flagged row 2 and in row 3 shared its style object and keep their
\* style
C24_Witness ==
    /\ baked
    /\ bakeArgs = [startRow |-> 1, endRow |-> 2, colCount |-> 1]
    /\ ~Flagged(1) /\ Flagged(2)
    /\ {<<1, 1>>, <<1, 2>>, <<2, 2>>, <<3, 1>>} \subseteq DOMAIN ws0.val
    /\ {ws0.sty[<<1, 1>>], ws0.sty[<<1, 2>>], ws0.sty[<<2, 2>>], ws0.sty[<<3, 1>>]} = {PlainRef}
    /\ CellStyle(ws, 1, 1).fill = SolidFill(STRIPE_EVEN)
    /\ CellStyle(ws, 1, 2).fill = NoFill
    /\ CellStyle(ws, 2, 2).fill = NoFill
    /\ CellStyle(ws, 3, 1).fill = NoFill

(***************************************************************************)
(* C25.  What a recoloured cell keeps.                                     *)
(***************************************************************************)
\* a style part absent before and empty after is the same part
SamePart(before, after) == CopyOrEmpty(before) = CopyOrEmpty(after)

\* C25 as claimed: a cell the bake recolours has, after the bake, the value,
\* font, alignment, border and number format it had before it.
C25_AsClaimed ==
    baked =>
      \A r \in BakedRows : \A c \in BakedCols :
        ~Flagged(r) =>
          /\ CellValue(ws, r, c) = CellValue(ws0, r, c)
          /\ SamePart(CellStyle(ws0, r, c).font, CellStyle(ws, r, c).font)
          /\ SamePart(CellStyle(ws0, r, c).alignment, CellStyle(ws, r, c).alignment)
          /\ SamePart(CellStyle(ws0, r, c).border, CellStyle(ws, r, c).border)
          /\ CellStyle(ws, r, c).numFmt = CellStyle(ws0, r, c).numFmt

(***************************************************************************)
(* C26.  The row layout of the DC sheet.                                   *)
(***************************************************************************)
RECURSIVE InTree(_, _, _)
\* the measurement at position i hangs, through parents of its own inverter,
\* from a top-level measurement (fuel bounds the climb)
InTree(ms, i, fuel) ==
    \/ ms[i].parentId = Null
    \/ /\ fuel > 0
       /\ \E j \in DOMAIN ms : /\ ms[j].id = ms[i].parentId
                               /\ ms[j].inverterIndex = ms[i].inverterIndex
                               /\ InTree(ms, j, fuel - 1)
\* the positions of the measurements in the tree of the inverter
NodesOf(ms, inverterIndex) ==
    {i \in DOMAIN ms : ms[i].inverterIndex = inverterIndex /\ InTree(ms, i, Len(ms))}
RECURSIVE RowsBefore(_, _)
\* the rows the configs before the k-th take: a header and the nodes, each
RowsBefore(inspection, k) ==
    IF k <= 1 THEN 0
    ELSE RowsBefore(inspection, k - 1) + 1 +
         Cardinality(NodesOf(inspection.dcMeasurements,
                             inspection.inverterConfigs[k - 1].index))
HeaderRow(inspection, k) == 2 + RowsBefore(inspection, k)

\* C26: after fillDcSheet the k-th config's header row, counted from row 2 over
\* the headers and tree nodes of the configs before it, holds the inverter
\* index in column 1 and nothing new elsewhere; the rows below it hold the
\* labels of that inverter's depth-first tree, one per node; the filler
\* returns 1 + the sum over the configs of (1 + nodes), no row below that row
\* is written, and with configs that row is written.  With no configs nothing
\* is written, 1 is returned and the bake over rows 2..1 changes no cell.  A
\* measurement of an inverter without config, or whose parent is no
\* measurement of its inverter, is on no row.
C26_DcRowLayout ==
    filler = "dc" =>
      LET ms == insp.dcMeasurements
          cf == insp.inverterConfigs
          n  == Len(cf)
      IN  /\ \A k \in 1..n :
               LET h       == HeaderRow(insp, k)
                   ordered == getOrderedDcTree(ms, cf[k].index)
               IN  /\ CellValue(ws, h, 1) = Num(cf[k].index)
                   /\ \A col \in 2..8 : CellValue(ws, h, col) = CellValue(ws0, h, col)
                   /\ Len(ordered) = Cardinality(NodesOf(ms, cf[k].index))
                   /\ \A p \in 1..Len(ordered) :
                        /\ CellValue(ws, h + p, 2) = ordered[p].measurement.stringLabel
                        /\ CellValue(ws, h + p, 1) = CellValue(ws0, h + p, 1)
          /\ dcLastRow = 1 + RowsBefore(insp, n + 1)
          /\ \A x \in DOMAIN ws.val :
               x[1] > dcLastRow => (x \in DOMAIN ws0.val /\ ws.val[x] = ws0.val[x])
          /\ n > 0 => \E col \in 1..2 : /\ CellValue(ws, dcLastRow, col) # TemplateText
                                        /\ CellValue(ws, dcLastRow, col) # Null
          /\ n = 0 => /\ ws = ws0
                      /\ dcLastRow = 1
                      /\ bakeTableStripes(ws, 2, dcLastRow, 8) = ws
          /\ \A i \in DOMAIN ms :
               (\/ \A k \in 1..n : cf[k].index # ms[i].inverterIndex
                \/ ~InTree(ms, i, Len(ms)))
               => \A x \in DOMAIN ws.val : x[2] = 2 => ws.val[x] # ms[i].stringLabel

\* two configs, the first with no measurement in its tree: its header is on
\* row 2, the second header on row 3 and its only string on row 4, the last
\* row; the other measurement names a parent that no measurement carries
C26_Witness ==
    /\ filler = "dc"
    /\ Len(insp.inverterConfigs) = 2
    /\ Len(insp.dcMeasurements) = 2
    /\ insp.dcMeasurements[1].inverterIndex = 2
    /\ insp.dcMeasurements[1].parentId = Null
    /\ insp.dcMeasurements[2].parentId = NodeId(0)
    /\ CellValue(ws, 2, 1) = Num(1) /\ CellValue(ws, 3, 1) = Num(2)
    /\ CellValue(ws, 4, 2) = insp.dcMeasurements[1].stringLabel
    /\ dcLastRow = 4

(***************************************************************************)
(* C28.  The order of scans and writes within a filler.  The steps of a    *)
(* filler, in program order: a scan of a column that builds an address     *)
(* list (made), a write of a cell at an address taken from a list (uses,   *)
(* "fixed" for an address that is written in the code).                    *)
(***************************************************************************)
ScanStep(col, made) == [op |-> "scan", row |-> 0, col |-> col, list |-> made]
\* setCell returns before ws.getCell when the value is undefined or ''
setCellSteps(row, col, value, uses) ==
    IF value = Undef \/ value = Empty THEN <<>>
    ELSE <<[op |-> "write", row |-> row, col |-> col, list |-> uses]>>

RECURSIVE checklistItemSteps(_, _)
\* the writes of fillChecklistSheet's loop over inspection.checklist
checklistItemSteps(codeToRow, items) ==
    IF items = <<>> THEN <<>>
    ELSE LET item == Head(items)
             code == item.sectionCode.s
         IN  (IF MapHas(codeToRow, code) /\ Truthy(item.status)
              THEN setCellSteps(codeToRow[code], 3, item.status, "codeToRow") ELSE <<>>)
             \o (IF MapHas(codeToRow, code) /\ Truthy(item.notes)
                 THEN setCellSteps(codeToRow[code], 4, item.notes, "codeToRow") ELSE <<>>)
             \o checklistItemSteps(codeToRow, Tail(items))

\* fillChecklistSheet, step by step: the header cells, the scan, the items
fillChecklistSteps(w, inspection) ==
    LET a == setCell(w, 2, 2, inspection.meta.siteName)
        b == setCell(a, 2, 4, inspection.meta.inspectionDate)
        c == setCell(b, 3, 2, inspection.meta.inspectorName)
        d == IF Truthy(inspection.meta.signatureText)
             THEN setCell(c, 3, 4, inspection.meta.signatureText) ELSE c
    IN  setCellSteps(2, 2, inspection.meta.siteName, "fixed")
        \o setCellSteps(2, 4, inspection.meta.inspectionDate, "fixed")
        \o setCellSteps(3, 2, inspection.meta.inspectorName, "fixed")
        \o (IF Truthy(inspection.meta.signatureText)
            THEN setCellSteps(3, 4, inspection.meta.signatureText, "fixed") ELSE <<>>)
        \o <<ScanStep(1, "codeToRow")>>
        \o checklistItemSteps(buildCodeToRowMap(d), inspection.checklist)

RECURSIVE acItemSteps(_, _)
\* the writes of fillAcSheet's loop over inspection.acMeasurements
acItemSteps(codeToRow, ms) ==
    IF ms = <<>> THEN <<>>
    ELSE LET m    == Head(ms)
             code == m.itemCode.s
         IN  (IF MapHas(codeToRow, code) /\ m.result # Undef /\ m.result # Empty
              THEN setCellSteps(codeToRow[code], 3, m.result, "codeToRow") ELSE <<>>)
             \o (IF MapHas(codeToRow, code) /\ Truthy(m.notes)
                 THEN setCellSteps(codeToRow[code], 4, m.notes, "codeToRow") ELSE <<>>)
             \o acItemSteps(codeToRow, Tail(ms))

RECURSIVE acSerialSteps_rescan(_, _)
\* A plausible slip: the marker column is scanned anew for every serial.
acSerialSteps_rescan(serialRows, serials) ==
    IF serials = <<>> THEN <<>>
    ELSE LET serial == Head(serials)
             idx    == serial.inverterIndex - 1
         IN  (IF idx >= 0 /\ idx < Len(serialRows) /\ Truthy(serial.serialNumber)
              THEN setCellSteps(serialRows[idx + 1], 3, serial.serialNumber, "serialRows")
              ELSE <<>>)
             \o (IF Tail(serials) # <<>> THEN <<ScanStep(2, "serialRows")>> ELSE <<>>)
             \o acSerialSteps_rescan(serialRows, Tail(serials))

RECURSIVE acSerialSteps(_, _)
\* the writes of fillAcSheet's loop over inspection.inverterSerials
acSerialSteps(serialRows, serials) ==
    IF serials = <<>> THEN <<>>
    ELSE LET serial == Head(serials)
             idx    == serial.inverterIndex - 1
         IN  (IF idx >= 0 /\ idx < Len(serialRows) /\ Truthy(serial.serialNumber)
              THEN setCellSteps(serialRows[idx + 1], 3, serial.serialNumber, "serialRows")
              ELSE <<>>)
             \o acSerialSteps(serialRows, Tail(serials))

\* fillAcSheet, step by step: the scan, the items, the marker scan, the serials
fillAcSteps(w, inspection) ==
    LET codeToRow == buildCodeToRowMap(w)
        filled    == fillAcItems(w, codeToRow, inspection.acMeasurements)
    IN  <<ScanStep(1, "codeToRow")>>
        \o acItemSteps(codeToRow, inspection.acMeasurements)
        \o <<ScanStep(2, "serialRows")>>
        \o acSerialSteps(scanSerialRows(filled, 1), inspection.inverterSerials)

\* the steps of the filler that has run, on the sheet it was handed
FillerSteps == CASE filler = "checklist" -> fillChecklistSteps(ws0, insp)
                 [] filler = "ac"        -> fillAcSteps(ws0, insp)
                 [] OTHER                -> <<>>
Scans(steps)  == {i \in DOMAIN steps : steps[i].op = "scan"}
Writes(steps) == {i \in DOMAIN steps : steps[i].op = "write"}

\* C28 as claimed: in a run of the checklist or the AC filler every scan of
\* the sheet comes before every write to it.
C28_AsClaimed ==
    filler \in {"checklist", "ac"} =>
      \A s \in Scans(FillerSteps) : \A x \in Writes(FillerSteps) : s < x

\* C28 (amended): in a run of the checklist or the AC filler each address list
\* is built by one scan, which comes before every write at an address taken
\* from that list; the writes that come before a scan (the checklist's header
\* cells, the AC items before the marker scan) are to columns other than the
\* scanned one, and the scan finds what it finds on the sheet as it was before
\* the filler's first write.  The cells the filler changed are written cells.
C28_ScanBeforeItsWrites ==
    filler \in {"checklist", "ac"} =>
      LET steps == FillerSteps
      IN  /\ \A x \in Writes(steps) :
               steps[x].list # "fixed" =>
                 \E s \in Scans(steps) : s < x /\ steps[s].list = steps[x].list
          /\ \A s, t \in Scans(steps) : steps[s].list = steps[t].list => s = t
          /\ \A s \in Scans(steps) : \A x \in Writes(steps) :
               x < s => steps[x].col # steps[s].col
          /\ filler = "checklist" => buildCodeToRowMap(ws) = buildCodeToRowMap(ws0)
          /\ filler = "ac" => /\ buildCodeToRowMap(ws) = buildCodeToRowMap(ws0)
                              /\ scanSerialRows(ws, 1) = scanSerialRows(ws0, 1)
          /\ \A c \in DOMAIN ws.val :
               (c \notin DOMAIN ws0.val \/ ws.val[c] # ws0.val[c]) =>
                 \E x \in Writes(steps) : steps[x].row = c[1] /\ steps[x].col = c[2]

\* an AC fill that wrote an item before the marker scan and a serial after it
C28_Witness ==
    /\ filler = "ac"
    /\ \E x, y \in Writes(FillerSteps), s \in Scans(FillerSteps) :
         /\ x < s /\ s < y
         /\ FillerSteps[x].list = "codeToRow"
         /\ FillerSteps[y].list = "serialRows"
         /\ CellValue(ws, FillerSteps[x].row, 3) # CellValue(ws0, FillerSteps[x].row, 3)

(***************************************************************************)
(* C27.  The order of the steps of an export.                              *)
(***************************************************************************)
\* the steps of downloadWorkbook in a call's log: what handleExport itself
\* does (its guard, catch and finally) and the throw that ends a run set aside
WorkbookSteps(c) ==
    SelectSeq(calls[c].log, LAMBDA e : e.op \notin {"guard", "throw", "catch", "finally"})
SheetPlace(name) == CHOOSE k \in DOMAIN NamedSheets : NamedSheets[k] = name
\* the place of a step in the claimed sequence
StepPlace(e) ==
    CASE e.op = "fetch"       -> 1
      [] e.op = "arrayBuffer" -> 2
      [] e.op = "load"        -> 3
      [] e.op = "fill"        -> 2 + 2 * SheetPlace(e.sheet)
      [] e.op = "bake"        -> 3 + 2 * SheetPlace(e.sheet)
      [] e.op = "strip"       -> 12
      [] e.op = "writeBuffer" -> 13
      [] e.op = "click"       -> 14
      [] OTHER                -> 0

\* C27: the steps of every run of downloadWorkbook are, in this order and each
\* at most once: the fetch, the read of its body, the parse, then for the
\* checklist, DC, AC and defects sheets in that order the fill of the sheet
\* with its bake right after it, the table stripping, the serialization, the
\* download trigger.  A run starts with the fetch and skips no step but the
\* fill and bake of an absent sheet; the download trigger is not there while
\* the serialization is awaited; a run that downloaded has every step.
C27_LinearSequence ==
    \A c \in Calls :
      LET steps == WorkbookSteps(c)
      IN  /\ \A i \in DOMAIN steps : StepPlace(steps[i]) > 0
          /\ \A i, j \in DOMAIN steps : i < j => StepPlace(steps[i]) < StepPlace(steps[j])
          /\ steps # <<>> => steps[1].op = "fetch"
          /\ \A i \in DOMAIN steps :
               /\ steps[i].op = "fill" =>
                    i < Len(steps) /\ steps[i + 1] = Ev("bake", steps[i].sheet)
               /\ steps[i].op = "bake" =>
                    i > 1 /\ steps[i - 1] = Ev("fill", steps[i].sheet)
               /\ steps[i].op \in {"fill", "bake"} => getWorksheet(template, steps[i].sheet) # 0
               /\ steps[i].op = "strip" =>
                    \A n \in PresentSheets : \E j \in 1..(i - 1) : steps[j] = Ev("bake", n)
               /\ (i > 1 /\ steps[i].op \notin {"fill", "bake", "strip"}) =>
                    StepPlace(steps[i - 1]) = StepPlace(steps[i]) - 1
               /\ steps[i].op = "strip" => i > 1 /\ steps[i - 1].op \in {"load", "bake"}
          /\ calls[c].pc = "write" =>
               steps[Len(steps)].op = "writeBuffer" /\ DownloadsOf(c) = {}
          /\ DownloadsOf(c) # {} => steps[Len(steps)].op = "click"
          /\ calls[c].outcome = "downloaded" =>
               /\ Len(steps) = 6 + 2 * Cardinality(PresentSheets)
               /\ Cardinality(DownloadsOf(c)) = 1

\* an export of a template with all four sheets has downloaded: its fourteen
\* steps, and the finally of handleExport after them
C27_Witness ==
    /\ Cardinality(PresentSheets) = 4
    /\ \E c \in Calls :
         /\ calls[c].outcome = "downloaded"
         /\ Len(WorkbookSteps(c)) = 14
         /\ WorkbookSteps(c)[6] = Ev("fill", SHEET_DC)
         /\ WorkbookSteps(c)[7] = Ev("bake", SHEET_DC)
         /\ calls[c].log[Len(calls[c].log)] = Did("finally")

(***************************************************************************)
(* C29.  The defects handleExport passes and the store's allDefects.       *)
(***************************************************************************)
\* C29 as claimed: for the inspection of the report in the store, the list
\* handleExport computes has as many entries as the store's allDefects, in
\* the same order, with the same component, fault, location and status each.
C29_AsClaimed ==
    currentReport # NullReport =>
      LET passed == exportAllDefects(currentReport.inspection)
          all    == allDefects(currentReport)
      IN  /\ Len(passed) = Len(all)
          /\ \A i \in DOMAIN passed :
               /\ passed[i].component = all[i].component
               /\ passed[i].fault     = all[i].fault
               /\ passed[i].location  = all[i].location
               /\ passed[i].status    = all[i].status

(***************************************************************************)
(* C30.  Inverter configs and serials.                                     *)
(***************************************************************************)
\* C30: whatever operations the store has run, the config at list position p
\* has the index p, and the serials are as many as the configs, the one at
\* position p carrying the inverter index p; and after a step of
\* setInverterConfigs, or of updateInverterConfig that found its config, every
\* serial number is the empty string.
C30_ConfigsAndSerials ==
    /\ [](currentReport # NullReport =>
            LET configs == currentReport.inspection.inverterConfigs
                serials == currentReport.inspection.inverterSerials
            IN  /\ \A p \in DOMAIN configs : configs[p].index = p
                /\ Len(serials) = Len(configs)
                /\ \A p \in DOMAIN serials : serials[p].inverterIndex = p)
    /\ [][ (\/ lastOp'.op = "setInverterConfigs"
            \/ lastOp'.op = "updateInverterConfig" /\ lastOp'.saved) =>
             \A p \in DOMAIN currentReport'.inspection.inverterSerials :
               currentReport'.inspection.inverterSerials[p].serialNumber = Empty ]_vars

\* the report stored with the serial number of its inverter entered has had
\* its inverter relabelled: the serial number is the empty string
C30_Witness ==
    /\ currentReport # NullReport
    /\ currentReport.name = LegacyReport.name
    /\ lastOp.op = "updateInverterConfig" /\ lastOp.saved
    /\ lastOp.arg[2] = [label |-> Str(<<"L">>)]
    /\ Len(currentReport.inspection.inverterConfigs) = 1
    /\ currentReport.inspection.inverterConfigs[1].label = Str(<<"L">>)
    /\ currentReport.inspection.inverterSerials = <<[inverterIndex |-> 1, serialNumber |-> Empty]>>
    /\ loadReport(storage, R1).inspection.inverterSerials = currentReport.inspection.inverterSerials

(***************************************************************************)
(* C31.  An edit of an inverter's label.                                   *)
(***************************************************************************)
\* C31 as claimed: a step of updateInverterConfig that is given a label only
\* leaves the DC measurements (ids, sub-strings, values) and the inverter
\* serial numbers as they were.
C31_AsClaimed ==
    [][ (/\ lastOp'.op = "updateInverterConfig"
         /\ DOMAIN lastOp'.arg[2] = {"label"}
         /\ currentReport # NullReport) =>
          /\ currentReport'.inspection.dcMeasurements = currentReport.inspection.dcMeasurements
          /\ currentReport'.inspection.inverterSerials = currentReport.inspection.inverterSerials
      ]_vars

(***************************************************************************)
(* C32.  Labels among siblings.                                            *)
(***************************************************************************)
\* C32 as claimed: whatever setInverterConfigs, addDcString, addDcSubstring
\* and removeDcMeasurement have done, and no label having been edited by
\* hand, no two measurements of one inverter with the same parent carry the
\* same string label.
C32_AsClaimed ==
    (currentReport # NullReport /\ Relabelled(currentReport) = {}) =>
      LET ms == DcOf(currentReport)
      IN  \A i, j \in DOMAIN ms :
            (/\ i # j
             /\ ms[i].inverterIndex = ms[j].inverterIndex
             /\ ms[i].parentId = ms[j].parentId) =>
              ms[i].stringLabel # ms[j].stringLabel

(***************************************************************************)
(* SpecReports: saveReport, deleteReport and duplicateReport (reports.ts)  *)
(* called in any order on a storage that starts empty.  generateId draws   *)
(* an id under which nothing is stored and that no summary carries; every  *)
(* localStorage.setItem succeeds.                                          *)
(***************************************************************************)
MaxCopies == 2    \* how many times ' (copy)' is appended to a name
R3 == Str(<<"r", "3">>)
StoredIds == {R1, R2, R3}

\* ' (עותק)', transliterated
COPY_SUFFIX == <<" ", "(", "o", "t", "k", ")">>

\* saveReport(report): the blob is written, then the index entry
saveReport(store, idx, report) ==
    [ storage |-> [store EXCEPT ![report.id] = Json(report)],
      index   |-> saveIndexEntry(idx, report) ]

\* deleteReport(id)
deleteReport(store, idx, id) ==
    [ storage |-> [store EXCEPT ![id] = NoItem],
      index   |-> SelectSeq(idx, LAMBDA r : r.id # id) ]

\* A plausible slip: the copy keeps the original's id.
duplicateReport_sameId(store, idx, id, newId) ==
    LET original == loadReport(store, id)
    IN  IF original = NullReport
        THEN [storage |-> store, index |-> idx, result |-> Null]
        ELSE LET copy == [original EXCEPT !.name = Str(@.s \o COPY_SUFFIX)]
                 saved == saveReport(store, idx, copy)
             IN  [storage |-> saved.storage, index |-> saved.index, result |-> newId]

\* duplicateReport(id), generateId() having returned newId
duplicateReport(store, idx, id, newId) ==
    LET original == loadReport(store, id)
    IN  IF original = NullReport
        THEN [storage |-> store, index |-> idx, result |-> Null]
        ELSE LET copy == [original EXCEPT !.id = newId,
                                          !.name = Str(@.s \o COPY_SUFFIX)]
                 saved == saveReport(store, idx, copy)
             IN  [storage |-> saved.storage, index |-> saved.index, result |-> newId]

\* the ids generateId may return
FreshIds == {id \in StoredIds : /\ storage[id] = NoItem
                                /\ \A i \in DOMAIN index : index[i].id # id}

ReportsInit ==
    /\ storage = [id \in StoredIds |-> NoItem]
    /\ index = <<>>
    /\ lastOp = NoOp
    /\ template = <<>> /\ exportingId = Null /\ calls = <<>> /\ downloads = <<>>
    /\ currentReport = NullReport /\ editing = "none"
    /\ TreeIdle /\ FillIdle /\ BakeIdle

ReportsFrame ==
    UNCHANGED <<template, exportingId, calls, downloads, currentReport, editing,
                treeVars, fillVars, bakeVars>>

\* saveReport, as handleNew and the store's save() call it
CallSaveReport ==
    \E id \in StoredIds, inspection \in Inspections :
      LET after == saveReport(storage, index, Report(id, inspection))
      IN  /\ storage' = after.storage
          /\ index' = after.index
          /\ lastOp' = [op |-> "saveReport", arg |-> <<id>>, result |-> Null]
          /\ ReportsFrame

\* deleteReport, as handleDelete calls it
CallDeleteReport ==
    \E id \in StoredIds :
      LET after == deleteReport(storage, index, id)
      IN  /\ storage' = after.storage
          /\ index' = after.index
          /\ lastOp' = [op |-> "deleteReport", arg |-> <<id>>, result |-> Null]
          /\ ReportsFrame

\* duplicateReport, as handleDuplicate calls it
CallDuplicateReport ==
    \E id \in StoredIds, newId \in FreshIds :
      LET after == duplicateReport(storage, index, id, newId)
      IN  /\ loadReport(storage, id) # NullReport =>
                Len(loadReport(storage, id).name.s)
                   < Len(NEW_REPORT_NAME.s) + MaxCopies * Len(COPY_SUFFIX)
          /\ storage' = after.storage
          /\ index' = after.index
          /\ lastOp' = [op |-> "duplicateReport", arg |-> <<id>>, result |-> after.result]
          /\ ReportsFrame

ReportsNext == CallSaveReport \/ CallDeleteReport \/ CallDuplicateReport

SpecReports == ReportsInit /\ [][ReportsNext]_vars

(***************************************************************************)
(* C33.  The index and the stored reports.                                 *)
(***************************************************************************)
SummariesOf(id) == {i \in DOMAIN index : index[i].id = id}

\* C33: whatever saveReport, deleteReport and duplicateReport have done, the
\* index holds one summary for every id under which a report is stored, that
\* report's summary, and none for any other id.  A step of duplicateReport of
\* an id under which a report is stored stores, under an id that had neither
\* report nor summary, a report with that id and the original's inspection,
\* appends its summary and leaves every other blob and every summary as they
\* were; of an id under which none is stored it returns null and leaves
\* storage and index as they were.
C33_IndexMatchesStorage ==
    /\ [](\A id \in DOMAIN storage :
            IF storage[id].kind = "json"
            THEN /\ storage[id].report.id = id
                 /\ Cardinality(SummariesOf(id)) = 1
                 /\ \A i \in SummariesOf(id) : index[i] = Summary(storage[id].report)
            ELSE SummariesOf(id) = {})
    /\ [](\A i \in DOMAIN index : index[i].id \in DOMAIN storage)
    /\ [][ lastOp'.op = "duplicateReport" =>
             LET id    == lastOp'.arg[1]
                 newId == lastOp'.result
             IN  IF storage[id].kind = "json"
                 THEN /\ newId # Null /\ newId # id
                      /\ storage[newId] = NoItem
                      /\ \A i \in DOMAIN index : index[i].id # newId
                      /\ storage'[newId].kind = "json"
                      /\ storage'[newId].report.id = newId
                      /\ storage'[newId].report.inspection = storage[id].report.inspection
                      /\ \A other \in DOMAIN storage \ {newId} : storage'[other] = storage[other]
                      /\ Len(index') = Len(index) + 1
                      /\ \A i \in DOMAIN index : index'[i] = index[i]
                      /\ index'[Len(index')] = Summary(storage'[newId].report)
                 ELSE /\ newId = Null
                      /\ storage' = storage
                      /\ index' = index ]_vars

\* a copy of a copy has been made of a report that was saved again after its
\* first copy: three reports are stored, the index has their three summaries
C33_Witness ==
    /\ lastOp.op = "duplicateReport"
    /\ lastOp.result # Null
    /\ Len(index) = 3
    /\ \A id \in StoredIds : storage[id].kind = "json"
    /\ storage[lastOp.result].report.name =
          Str(NEW_REPORT_NAME.s \o COPY_SUFFIX \o COPY_SUFFIX)
    /\ storage[lastOp.result].report.inspection = storage[lastOp.arg[1]].report.inspection
    /\ \E id \in StoredIds : storage[id].report.inspection # storage[lastOp.result].report.inspection

(***************************************************************************)
(* C34.  markSectionAllOk.                                                 *)
(***************************************************************************)
\* the section of a checklist item: its code up to the first dot
SectionOf(item) == BeforeDot(JsString(item.sectionCode))

\* C34: a step of markSectionAllOk(section) gives the normal status to the
\* checklist items of that section whose status is unset, and changes nothing
\* else: an item of the section with a status keeps it, every item keeps its
\* code, description and notes, the items of every other section, one whose
\* code starts with the section's code included, are as they were, and so is
\* the rest of the report.
C34_MarksUnsetOfSection ==
    [][ (lastOp'.op = "markSectionAllOk" /\ currentReport # NullReport) =>
          LET section == JsString(lastOp'.arg[1])
              before  == currentReport.inspection.checklist
              after   == currentReport'.inspection.checklist
          IN  /\ Len(after) = Len(before)
              /\ \A i \in DOMAIN before :
                   IF SectionOf(before[i]) = section /\ ~Truthy(before[i].status)
                   THEN after[i] = [before[i] EXCEPT !.status = STATUS_NORMAL]
                   ELSE after[i] = before[i]
              /\ currentReport' = [currentReport EXCEPT !.inspection.checklist = after]
      ]_vars

\* markSectionAllOk('1') has run on a checklist whose item 1.1 was faulty, with
\* notes, and whose items 1.2 and 10.1 were unset: 1.1 is faulty and has its
\* notes, 1.2 is normal, 10.1 unset
C34_Witness ==
    /\ currentReport # NullReport
    /\ lastOp.op = "markSectionAllOk"
    /\ lastOp.arg[1] = Str(<<"1">>)
    /\ LET list == currentReport.inspection.checklist
       IN  /\ \E i \in DOMAIN list : /\ list[i].sectionCode = Str(Code11)
                                     /\ list[i].status = STATUS_FAULTY
                                     /\ list[i].notes # Empty
           /\ \E i \in DOMAIN list : /\ list[i].sectionCode = Str(Code12)
                                     /\ list[i].status = STATUS_NORMAL
           /\ \E i \in DOMAIN list : /\ list[i].sectionCode = Str(Code101)
                                     /\ list[i].status = Empty

=============================================================================
